---- MODULE Spec2Model ----
(***************************************************************************)
(* Provider repository resolution and template rendering of clusterctl:    *)
(* construction of the repository client (backend selection by URL), the   *)
(* local override lookup, and the Get operations of the components and     *)
(* templates sub-clients.                                                  *)
(*                                                                         *)
(* Raw artifacts are sequences of tokens: a token is a piece of literal    *)
(* text or a ${NAME} placeholder.  A YAML document is three consecutive    *)
(* tokens: kind, namespace, name.  Each operation is one action; what it   *)
(* did (the calls it made, in order, and what it returned) is recorded in  *)
(* the variable last.                                                      *)
(***************************************************************************)
EXTENDS Integers, Sequences, FiniteSets, TLC

VARIABLES
    calls,      \* the Get calls in flight: where each one is, and its local variables
    cluster,    \* the management cluster: its current namespace and its ConfigMap
    cfgPath,    \* the path of the configuration file the client was given, or ""
    files,      \* the local filesystem below the overrides folder: path -> entry
    repoFiles,  \* the files the backend serves: <<version, path>> -> bytes
    variables,  \* the variable source: name -> value token, or NoValue
    client,     \* the repository client built by New, or NoClient
    last        \* the last operation: its inputs, calls made and result

vars == <<calls, cluster, cfgPath, files, repoFiles, variables, client, last>>

-----------------------------------------------------------------------------
(* Bounds of the model *)

\* how many override files exist on disk at once
MaxOverrides == 1

-----------------------------------------------------------------------------
(* Bytes, tokens, errors *)

Lit(s) == [t |-> "lit", s |-> s]
Var(n) == [t |-> "var", s |-> n]

\* a Go []byte: nil, or a (possibly empty) sequence of tokens
Nil == [nil |-> TRUE, bytes |-> <<>>]
Bytes(b) == [nil |-> FALSE, bytes |-> b]

NoErr == [kind |-> "", detail |-> ""]
Err(kind, detail) == [kind |-> kind, detail |-> detail]

\* one call made by an operation: what was called, for which version, and its
\* other argument (a path, a URL, a namespace)
Ev(op, version, arg) == [op |-> op, version |-> version, arg |-> arg]

-----------------------------------------------------------------------------
(* The artifacts used as file contents *)

\* templateYAML("ns3", "${ CLUSTER_NAME }") of the tests
RawCluster == <<Lit("Cluster"), Lit("ns3"), Var("CLUSTER_NAME")>>
\* a cluster-scoped object, then a namespaced one whose namespace is templated
RawMixed ==
    <<Lit("CustomResourceDefinition"), Lit(""), Lit("crd"),
      Lit("Machine"), Var("NAMESPACE"), Var("CLUSTER_NAME")>>
\* uses a variable the variable source may not hold
RawFoo == <<Lit("Machine"), Lit("ns3"), Var("FOO"), Lit("Cluster"), Lit("ns4"), Var("FOO")>>
\* not a list of documents
RawBroken == <<Lit("Cluster"), Lit("ns3")>>
\* what the override files hold
RawOverride == <<Lit("Machine"), Lit("ovr"), Var("CLUSTER_NAME")>>
RawEmpty == <<>>

Versions == {"v1.0.0", "v2.0.0"}
FileNames == {"components.yaml", "cluster-template.yaml", "cluster-template-dev.yaml"}

\* no management cluster is involved
NoCluster == [currentNamespace |-> "", configMap |-> <<>>]

NoValue == [t |-> "none", s |-> ""]
VariableSources ==
    { [n \in {"CLUSTER_NAME", "NAMESPACE", "FOO"} |->
          CASE n = "CLUSTER_NAME" -> Lit("test")
            [] n = "NAMESPACE" -> Lit("bar")
            [] OTHER -> NoValue],
      [n \in {"CLUSTER_NAME", "NAMESPACE", "FOO"} |->
          CASE n = "FOO" -> Lit("foo")
            [] n = "NAMESPACE" -> Lit("")
            [] OTHER -> NoValue] }

\* the backend's content: v1.0.0 with every file, v2.0.0 without the flavored template
RepoContents ==
    { [k \in (Versions \X FileNames) \ {<<"v2.0.0", "cluster-template-dev.yaml">>} |->
          CASE k = <<"v1.0.0", "components.yaml">> -> RawMixed
            [] k = <<"v1.0.0", "cluster-template.yaml">> -> RawCluster
            [] k = <<"v1.0.0", "cluster-template-dev.yaml">> -> RawBroken
            [] k = <<"v2.0.0", "components.yaml">> -> RawFoo
            [] OTHER -> RawMixed] }

-----------------------------------------------------------------------------
(* Providers and their URLs *)

httpsScheme == "https"
githubDomain == "github.com"

GitHubURL == "https://github.com/myorg/myrepo/releases/v1.0.0/components.yaml"
GitHubLatestURL == "https://github.com/myorg/myrepo/releases/latest/components.yaml"
GitHubShortURL == "https://github.com/myorg/myrepo"
GitLabURL == "https://gitlab.com/myorg/myrepo"
HttpURL == "http://github.com/myorg/myrepo/releases/v1.0.0/components.yaml"
LocalURL == "/tmp/repo/infrastructure-aws/v2.0.0/components.yaml"
FileURL == "file:///tmp/repo/cluster-api/v1.0.0/components.yaml"
LocalLatestURL == "/tmp/repo/infrastructure-aws/latest/components.yaml"
RelativeURL == "url"
BadURL == "://missing-scheme"

URLs ==
    {GitHubURL, GitHubLatestURL, GitHubShortURL, GitLabURL, HttpURL, LocalURL,
     FileURL, LocalLatestURL, RelativeURL, BadURL}

\* net/url.Parse on the URLs above; Path is kept split at "/"
urlParse(u) ==
    CASE u = GitHubURL ->
           [err |-> FALSE, Scheme |-> "https", Host |-> "github.com", abs |-> TRUE,
            Path |-> <<"myorg", "myrepo", "releases", "v1.0.0", "components.yaml">>]
      [] u = GitHubLatestURL ->
           [err |-> FALSE, Scheme |-> "https", Host |-> "github.com", abs |-> TRUE,
            Path |-> <<"myorg", "myrepo", "releases", "latest", "components.yaml">>]
      [] u = GitHubShortURL ->
           [err |-> FALSE, Scheme |-> "https", Host |-> "github.com", abs |-> TRUE,
            Path |-> <<"myorg", "myrepo">>]
      [] u = GitLabURL ->
           [err |-> FALSE, Scheme |-> "https", Host |-> "gitlab.com", abs |-> TRUE,
            Path |-> <<"myorg", "myrepo">>]
      [] u = HttpURL ->
           [err |-> FALSE, Scheme |-> "http", Host |-> "github.com", abs |-> TRUE,
            Path |-> <<"myorg", "myrepo", "releases", "v1.0.0", "components.yaml">>]
      [] u = LocalURL ->
           [err |-> FALSE, Scheme |-> "", Host |-> "", abs |-> TRUE,
            Path |-> <<"tmp", "repo", "infrastructure-aws", "v2.0.0", "components.yaml">>]
      [] u = FileURL ->
           [err |-> FALSE, Scheme |-> "file", Host |-> "", abs |-> TRUE,
            Path |-> <<"tmp", "repo", "cluster-api", "v1.0.0", "components.yaml">>]
      [] u = LocalLatestURL ->
           [err |-> FALSE, Scheme |-> "", Host |-> "", abs |-> TRUE,
            Path |-> <<"tmp", "repo", "infrastructure-aws", "latest", "components.yaml">>]
      [] u = RelativeURL ->
           [err |-> FALSE, Scheme |-> "", Host |-> "", abs |-> FALSE, Path |-> <<"url">>]
      [] OTHER ->
           [err |-> TRUE, Scheme |-> "", Host |-> "", abs |-> FALSE, Path |-> <<>>]

NewProvider(name, url, type) == [name |-> name, url |-> url, type |-> type]

Providers ==
    { NewProvider("aws", GitHubURL, "InfrastructureProvider"),
      NewProvider("cluster-api", GitHubLatestURL, "CoreProvider"),
      NewProvider("aws", LocalURL, "InfrastructureProvider"),
      NewProvider("cluster-api", FileURL, "CoreProvider"),
      NewProvider("aws", GitHubShortURL, "InfrastructureProvider"),
      NewProvider("aws", GitLabURL, "InfrastructureProvider"),
      NewProvider("aws", HttpURL, "InfrastructureProvider"),
      NewProvider("aws", RelativeURL, "InfrastructureProvider"),
      NewProvider("cluster-api", BadURL, "CoreProvider") }

\* the providers whose default version is read: URLs with a version, URLs
\* pointing to latest, and a URL no backend accepts
VersionedProviders ==
    { NewProvider("aws", GitHubURL, "InfrastructureProvider"),
      NewProvider("cluster-api", GitHubLatestURL, "CoreProvider"),
      NewProvider("aws", LocalURL, "InfrastructureProvider"),
      NewProvider("aws", LocalLatestURL, "InfrastructureProvider"),
      NewProvider("aws", GitHubShortURL, "InfrastructureProvider") }

\* config.Provider.ManifestLabel: the provider's name, prefixed by its type
ManifestLabel(provider) ==
    CASE provider.type = "CoreProvider" -> provider.name
      [] provider.type = "BootstrapProvider" -> "bootstrap-" \o provider.name
      [] provider.type = "ControlPlaneProvider" -> "control-plane-" \o provider.name
      [] OTHER -> "infrastructure-" \o provider.name

Labels == {ManifestLabel(p) : p \in Providers}

-----------------------------------------------------------------------------
(* Repository backends *)

NoRepository == [kind |-> "none", defaultVersion |-> "", rootPath |-> "", componentsPath |-> ""]

\* test.FakeRepository .WithPaths("root", "components.yaml").WithDefaultVersion(v)
FakeRepositories ==
    { [kind |-> "fake", defaultVersion |-> v, rootPath |-> "root",
       componentsPath |-> "components.yaml"] : v \in {"v1.0.0"} }

\* the versions the backend holds
AvailableVersions(rf) == {k[1] : k \in DOMAIN rf}

\* the tags a backend may hold: releases, pre-releases, and a tag that is no version
Tags == {"v1.0.0", "v2.0.0", "v2.0.0-rc.1", "v2.1.0-alpha.1", "v2.1.0-rc.1", "nightly"}

\* the tag as a semantic version; pre is 0 for a release, and otherwise the rank
\* of the pre-release identifiers (alpha.1 before rc.1)
ParseSemantic(tag) ==
    CASE tag = "v1.0.0" -> [ok |-> TRUE, major |-> 1, minor |-> 0, patch |-> 0, pre |-> 0]
      [] tag = "v2.0.0" -> [ok |-> TRUE, major |-> 2, minor |-> 0, patch |-> 0, pre |-> 0]
      [] tag = "v2.0.0-rc.1" -> [ok |-> TRUE, major |-> 2, minor |-> 0, patch |-> 0, pre |-> 2]
      [] tag = "v2.1.0-alpha.1" ->
           [ok |-> TRUE, major |-> 2, minor |-> 1, patch |-> 0, pre |-> 1]
      [] tag = "v2.1.0-rc.1" -> [ok |-> TRUE, major |-> 2, minor |-> 1, patch |-> 0, pre |-> 2]
      [] tag = "v1.2.3" -> [ok |-> TRUE, major |-> 1, minor |-> 2, patch |-> 3, pre |-> 0]
      [] tag = "v3.0.0" -> [ok |-> TRUE, major |-> 3, minor |-> 0, patch |-> 0, pre |-> 0]
      [] OTHER -> [ok |-> FALSE, major |-> 0, minor |-> 0, patch |-> 0, pre |-> 0]

\* semantic-version precedence: a pre-release ranks lower than its release
SemVerLess(v, w) ==
    LET a == ParseSemantic(v)
        b == ParseSemantic(w)
    IN  \/ a.major < b.major
        \/ a.major = b.major /\ a.minor < b.minor
        \/ a.major = b.major /\ a.minor = b.minor /\ a.patch < b.patch
        \/ /\ a.major = b.major /\ a.minor = b.minor /\ a.patch = b.patch
           /\ a.pre # 0 /\ (b.pre = 0 \/ a.pre < b.pre)

\* a variant of LatestVersion that counts the pre-releases as releases
LatestVersionAnyTag(rf) ==
    LET versions == {v \in AvailableVersions(rf) : ParseSemantic(v).ok}
    IN  CHOOSE v \in versions : \A w \in versions : ~SemVerLess(v, w)

\* the newest release the backend holds, or its newest pre-release when it holds
\* no release
LatestVersion(rf) ==
    LET versions == {v \in AvailableVersions(rf) : ParseSemantic(v).ok}
        releases == {v \in versions : ParseSemantic(v).pre = 0}
        candidates == IF releases # {} THEN releases ELSE versions
    IN  CHOOSE v \in candidates : \A w \in candidates : ~SemVerLess(v, w)

\* a variant of ResolveVersion that keeps the sentinel
ResolveVersionKeepsLatest(v, rf) == v

ResolveVersion(v, rf) == IF v = "latest" THEN LatestVersion(rf) ELSE v

\* the GitHub backend: the URL path must be {owner}/{repo}/releases/{version}/{file}
newGitHubRepository(rURL, rf) ==
    IF Len(rURL.Path) < 5 \/ rURL.Path[3] # "releases"
    THEN [err |-> Err("MalformedProviderURL", "github"), repo |-> NoRepository]
    ELSE [err |-> NoErr,
          repo |-> [kind |-> "github", defaultVersion |-> ResolveVersion(rURL.Path[4], rf),
                    rootPath |-> ".", componentsPath |-> rURL.Path[5]]]

\* the local filesystem backend: an absolute path .../{label}/{version}/{file}
newLocalRepository(rURL, rf) ==
    IF ~rURL.abs \/ Len(rURL.Path) < 3
    THEN [err |-> Err("MalformedProviderURL", "local"), repo |-> NoRepository]
    ELSE [err |-> NoErr,
          repo |-> [kind |-> "local",
                    defaultVersion |-> ResolveVersion(rURL.Path[Len(rURL.Path) - 1], rf),
                    rootPath |-> "", componentsPath |-> rURL.Path[Len(rURL.Path)]]]

\* a variant of isGitHubURL that forgets the scheme
isGitHubURLAnyScheme(rURL) == rURL.Host = githubDomain

\* "if the url is a github repository"
isGitHubURL(rURL) == rURL.Scheme = httpsScheme /\ rURL.Host = githubDomain

\* "if the url is a local filesystem repository"
isLocalURL(rURL) == rURL.Scheme = "file" \/ rURL.Scheme = ""

\* the backend for the provider's URL, with the constructors it called
repositoryFactory(providerConfig, rf) ==
    LET rURL == urlParse(providerConfig.url)
        parsed == <<Ev("url.Parse", "", providerConfig.url)>>
    IN  IF rURL.err
        THEN [err |-> Err("ParseURL", providerConfig.url), repo |-> NoRepository,
              trace |-> parsed]
        ELSE IF isGitHubURL(rURL)
        THEN LET r == newGitHubRepository(rURL, rf)
             IN  [err |-> r.err, repo |-> r.repo,
                  trace |-> parsed \o <<Ev("newGitHubRepository", "", providerConfig.url)>>]
        ELSE IF isLocalURL(rURL)
        THEN LET r == newLocalRepository(rURL, rf)
             IN  [err |-> r.err, repo |-> r.repo,
                  trace |-> parsed \o <<Ev("newLocalRepository", "", providerConfig.url)>>]
        ELSE [err |-> Err("UnsupportedScheme", rURL.Scheme), repo |-> NoRepository,
              trace |-> parsed]

NoClient == [provider |-> NewProvider("", "", ""), repository |-> NoRepository]

\* a variant of newRepositoryClient that keeps the client when the factory failed
newRepositoryClientLazy(provider, option, rf) ==
    IF option # NoRepository
    THEN [err |-> NoErr, client |-> [provider |-> provider, repository |-> option],
          trace |-> <<>>]
    ELSE LET r == repositoryFactory(provider, rf)
         IN  [err |-> NoErr, client |-> [provider |-> provider, repository |-> r.repo],
              trace |-> r.trace]

\* option is InjectRepository(option), or no option when it is NoRepository
newRepositoryClient(provider, option, rf) ==
    IF option # NoRepository
    THEN [err |-> NoErr, client |-> [provider |-> provider, repository |-> option],
          trace |-> <<>>]
    ELSE LET r == repositoryFactory(provider, rf)
         IN  IF r.err # NoErr
             THEN [err |-> r.err, client |-> NoClient, trace |-> r.trace]
             ELSE [err |-> NoErr, client |-> [provider |-> provider, repository |-> r.repo],
                   trace |-> r.trace]

DefaultVersion(repository) == repository.defaultVersion
ComponentsPath(repository) == repository.componentsPath

\* Repository.GetFile of the backend
GetFile(rf, version, path) ==
    IF ~ParseSemantic(version).ok
    THEN [err |-> Err("InvalidVersion", version), content |-> Nil]
    ELSE IF <<version, path>> \notin DOMAIN rf
    THEN [err |-> Err("NotFound", path), content |-> Nil]
    ELSE [err |-> NoErr, content |-> Bytes(rf[<<version, path>>])]

-----------------------------------------------------------------------------
(* The local override lookup *)

overrideFolder == "overrides"
ConfigFolder == ".cluster-api"
HomeDir == "/home/user"

\* path/filepath.Join: the non-empty elements, separated by "/"
RECURSIVE FilepathJoin(_)
FilepathJoin(elems) ==
    IF elems = <<>> THEN ""
    ELSE LET rest == FilepathJoin(Tail(elems))
         IN  IF Head(elems) = "" THEN rest
             ELSE IF rest = "" THEN Head(elems)
             ELSE Head(elems) \o "/" \o rest

\* where override files may exist on disk
OverrideVersions == {"v1.0.0"}
OverridePaths ==
    { FilepathJoin(<<HomeDir, ConfigFolder, overrideFolder, l, v, f>>) :
        l \in Labels, v \in OverrideVersions, f \in FileNames }

\* a file on disk: what os.Stat and ioutil.ReadFile give for it
FileEntries ==
    { [stat |-> "", read |-> "", content |-> RawOverride],
      [stat |-> "EACCES", read |-> "", content |-> RawEmpty],
      [stat |-> "", read |-> "EIO", content |-> RawOverride] }

osStat(fs, path) == IF path \in DOMAIN fs THEN fs[path].stat ELSE "ENOENT"
\* variants of osIsNotExist: no error, or every error, means the file is absent
osIsNotExistNever(err) == FALSE
osIsNotExistAlways(err) == TRUE
osIsNotExist(err) == err = "ENOENT"
ioutilReadFile(fs, path) ==
    IF fs[path].read = "" THEN [err |-> "", content |-> Bytes(fs[path].content)]
    ELSE [err |-> fs[path].read, content |-> Nil]

\* a variant of getLocalOverride that loses the content it read
getLocalOverrideDropsContent(fs, provider, version, path) ==
    LET homeFolder == FilepathJoin(<<HomeDir, ConfigFolder>>)
        overridePath ==
            FilepathJoin(<<homeFolder, overrideFolder, ManifestLabel(provider), version, path>>)
        err == osStat(fs, overridePath)
        stat == <<Ev("os.Stat", "", overridePath)>>
    IN  IF err = ""
        THEN LET r == ioutilReadFile(fs, overridePath)
                 read == stat \o <<Ev("ioutil.ReadFile", "", overridePath)>>
             IN  IF r.err # ""
                 THEN [content |-> Nil, err |-> Err("ReadOverride", r.err), trace |-> read]
                 ELSE [content |-> Nil, err |-> NoErr, trace |-> read]
        ELSE IF osIsNotExist(err)
        THEN [content |-> Nil, err |-> NoErr, trace |-> stat]
        ELSE [content |-> Nil, err |-> Err("StatOverride", err), trace |-> stat]

\* a variant of getLocalOverride that looks the file up without the version folder
getLocalOverrideUnversioned(fs, provider, version, path) ==
    LET homeFolder == FilepathJoin(<<HomeDir, ConfigFolder>>)
        overridePath ==
            FilepathJoin(<<homeFolder, overrideFolder, ManifestLabel(provider), path>>)
        err == osStat(fs, overridePath)
        stat == <<Ev("os.Stat", "", overridePath)>>
    IN  IF err = ""
        THEN LET r == ioutilReadFile(fs, overridePath)
                 read == stat \o <<Ev("ioutil.ReadFile", "", overridePath)>>
             IN  IF r.err # ""
                 THEN [content |-> Nil, err |-> Err("ReadOverride", r.err), trace |-> read]
                 ELSE [content |-> r.content, err |-> NoErr, trace |-> read]
        ELSE IF osIsNotExist(err)
        THEN [content |-> Nil, err |-> NoErr, trace |-> stat]
        ELSE [content |-> Nil, err |-> Err("StatOverride", err), trace |-> stat]

\* getLocalOverride: the local override file of the config folder, if it exists
getLocalOverride(fs, provider, version, path) ==
    LET homeFolder == FilepathJoin(<<HomeDir, ConfigFolder>>)
        overridePath ==
            FilepathJoin(<<homeFolder, overrideFolder, ManifestLabel(provider), version, path>>)
        err == osStat(fs, overridePath)
        stat == <<Ev("os.Stat", "", overridePath)>>
    IN  IF err = ""
        THEN LET r == ioutilReadFile(fs, overridePath)
                 read == stat \o <<Ev("ioutil.ReadFile", "", overridePath)>>
             IN  IF r.err # ""
                 THEN [content |-> Nil, err |-> Err("ReadOverride", r.err), trace |-> read]
                 ELSE [content |-> r.content, err |-> NoErr, trace |-> read]
        ELSE IF osIsNotExist(err)
        THEN [content |-> Nil, err |-> NoErr, trace |-> stat]
        ELSE [content |-> Nil, err |-> Err("StatOverride", err), trace |-> stat]

-----------------------------------------------------------------------------
(* Variables, conversion to objects, namespaces *)

RECURSIVE inspectFrom(_, _)
inspectFrom(data, seen) ==
    IF data = <<>> THEN seen
    ELSE LET tok == Head(data)
             new == tok.t = "var" /\ \A i \in 1..Len(seen) : seen[i] # tok.s
         IN  inspectFrom(Tail(data), IF new THEN Append(seen, tok.s) ELSE seen)

\* the placeholder names of the text, each once, in the order of first occurrence
inspectVariables(data) == inspectFrom(data, <<>>)

\* VariablesGetter.Get
GetVariable(vs, key) ==
    IF key \in DOMAIN vs /\ vs[key] # NoValue
    THEN [value |-> vs[key], err |-> NoErr]
    ELSE [value |-> NoValue, err |-> Err("MissingVariable", key)]

\* every placeholder of a variable the source holds is replaced by its value; a
\* variable the source lacks is an error, or left as it is when skipMissing
replaceVariables(yaml, names, vs, skipMissing) ==
    LET missing == {i \in 1..Len(names) : GetVariable(vs, names[i]).err # NoErr}
        known(n) == \E i \in 1..Len(names) : names[i] = n /\ i \notin missing
    IN  IF missing # {} /\ ~skipMissing
        THEN [err |-> Err("MissingVariable", names[CHOOSE i \in missing : \A j \in missing : i <= j]),
              yaml |-> Nil]
        ELSE [err |-> NoErr,
              yaml |-> Bytes([i \in 1..Len(yaml) |->
                          IF yaml[i].t = "var" /\ known(yaml[i].s)
                          THEN GetVariable(vs, yaml[i].s).value
                          ELSE yaml[i]])]

\* the text of a token, as a YAML value
TokenText(tok) == IF tok.t = "lit" THEN tok.s ELSE "${" \o tok.s \o "}"

NamespacedKinds == {"Cluster", "Machine"}
ClusterScopedKinds == {"CustomResourceDefinition"}

\* util.ToUnstructured: one object per document of three tokens
ToUnstructured(yaml) ==
    IF Len(yaml) % 3 # 0
       \/ \E i \in 1..Len(yaml) :
             i % 3 = 1 /\ TokenText(yaml[i]) \notin NamespacedKinds \cup ClusterScopedKinds
    THEN [err |-> Err("ConversionError", "yaml"), objs |-> <<>>]
    ELSE [err |-> NoErr,
          objs |-> [i \in 1..(Len(yaml) \div 3) |->
                      [kind |-> TokenText(yaml[3 * i - 2]),
                       namespace |-> TokenText(yaml[3 * i - 1]),
                       name |-> TokenText(yaml[3 * i])]]]

isResourceNamespaced(kind) == kind \in NamespacedKinds

\* every namespaced object is moved to targetNamespace
fixTargetNamespace(objs, targetNamespace) ==
    [i \in 1..Len(objs) |->
        IF isResourceNamespaced(objs[i].kind)
        THEN [objs[i] EXCEPT !.namespace = targetNamespace]
        ELSE objs[i]]

-----------------------------------------------------------------------------
(* Rendered artifacts and the results of the operations *)

\* repository.template, and the components NewComponents returns
NilTemplate ==
    [nil |-> TRUE, variables |-> <<>>, targetNamespace |-> "", objs |-> <<>>,
     rawYaml |-> Nil, name |-> "", version |-> ""]

Result(out, err, raw, trace) == [out |-> out, err |-> err, raw |-> raw, trace |-> trace]
Failed(err, raw, trace) == Result(NilTemplate, err, raw, trace)

\* the provider's default namespace: the one its first namespaced object is in
inspectTargetNamespace(objs) ==
    LET namespaced == {i \in 1..Len(objs) : isResourceNamespaced(objs[i].kind)}
    IN  IF namespaced = {} THEN ""
        ELSE objs[CHOOSE i \in namespaced : \A j \in namespaced : i <= j].namespace

\* NewComponents: variables, strict substitution, objects, target namespace; an
\* empty target namespace falls back to the provider's default namespace
NewComponents(provider, version, rawyaml, vs, targetNamespace0, watchingNamespace, done) ==
    LET names == inspectVariables(rawyaml.bytes)
        yaml == replaceVariables(rawyaml.bytes, names, vs, FALSE)
        t1 == done \o <<Ev("inspectVariables", "", ""), Ev("replaceVariables", "", "")>>
        objs == ToUnstructured(yaml.yaml.bytes)
        t2 == t1 \o <<Ev("ToUnstructured", "", "")>>
        targetNamespace == IF targetNamespace0 = "" THEN inspectTargetNamespace(objs.objs)
                           ELSE targetNamespace0
    IN  IF yaml.err # NoErr THEN Failed(yaml.err, rawyaml, t1)
        ELSE IF objs.err # NoErr THEN Failed(objs.err, rawyaml, t2)
        ELSE Result([nil |-> FALSE, variables |-> names, targetNamespace |-> targetNamespace,
                     objs |-> fixTargetNamespace(objs.objs, targetNamespace),
                     rawYaml |-> Nil, name |-> provider.name, version |-> version],
                    NoErr, rawyaml,
                    t2 \o <<Ev("fixTargetNamespace", "", targetNamespace)>>)

\* a variant of componentsVersion that always reads the default version
componentsVersionAlwaysDefault(repository, version) ==
    [version |-> DefaultVersion(repository), trace |-> <<Ev("DefaultVersion", "", "")>>]

\* the version a request targets: the repository's default one when none is given
componentsVersion(repository, version) ==
    IF version = ""
    THEN [version |-> DefaultVersion(repository), trace |-> <<Ev("DefaultVersion", "", "")>>]
    ELSE [version |-> version, trace |-> <<>>]

\* a variant of componentsClient.Get that stops once the variables are listed
ComponentsGetListsOnly(f, fs, rf, vs, version0, targetNamespace, watchingNamespace) ==
    LET resolved == componentsVersion(f.repository, version0)
        version == resolved.version
        path == ComponentsPath(f.repository)
        t1 == resolved.trace \o <<Ev("ComponentsPath", "", "")>>
        ov == getLocalOverride(fs, f.provider, version, path)
        t2 == t1 \o ov.trace
        gf == GetFile(rf, version, path)
        t3 == t2 \o <<Ev("GetFile", version, path)>>
        listed(file, done) ==
            Result([NilTemplate EXCEPT !.nil = FALSE,
                                       !.variables = inspectVariables(file.bytes),
                                       !.name = f.provider.name, !.version = version],
                   NoErr, file, done \o <<Ev("inspectVariables", "", "")>>)
    IN  IF ov.err # NoErr THEN Failed(ov.err, Nil, t2)
        ELSE IF ov.content.nil
        THEN IF gf.err # NoErr THEN Failed(gf.err, Nil, t3) ELSE listed(gf.content, t3)
        ELSE listed(ov.content, t2)

\* componentsClient.Get
ComponentsGet(f, fs, rf, vs, version0, targetNamespace, watchingNamespace) ==
    LET resolved == componentsVersion(f.repository, version0)
        version == resolved.version
        t0 == resolved.trace
        path == ComponentsPath(f.repository)
        t1 == t0 \o <<Ev("ComponentsPath", "", "")>>
        ov == getLocalOverride(fs, f.provider, version, path)
        t2 == t1 \o ov.trace
        gf == GetFile(rf, version, path)
        t3 == t2 \o <<Ev("GetFile", version, path)>>
    IN  IF ov.err # NoErr THEN Failed(ov.err, Nil, t2)
        ELSE IF ov.content.nil
        THEN IF gf.err # NoErr THEN Failed(gf.err, Nil, t3)
             ELSE NewComponents(f.provider, version, gf.content, vs, targetNamespace,
                                watchingNamespace, t3)
        ELSE NewComponents(f.provider, version, ov.content, vs, targetNamespace,
                           watchingNamespace, t2)

-----------------------------------------------------------------------------
(* The stateless processor and the template client built on it *)

newDefaultYamlProcessor(skipVariables) == [skipVariables |-> skipVariables]

\* a variant of ArtifactName that forgets the flavor
ArtifactNameUnflavored(version, flavor) == "cluster-template.yaml"

ArtifactName(version, flavor) ==
    LET name == "cluster-template"
        flavored == IF flavor # "" THEN name \o "-" \o flavor ELSE name
    IN  flavored \o ".yaml"

\* a variant of GetVariables that reports every occurrence of a placeholder
YamlGetVariablesEveryMatch(rawArtifact) ==
    LET isVar(tok) == tok.t = "var"
        matches == SelectSeq(rawArtifact, isVar)
    IN  [i \in 1..Len(matches) |-> matches[i].s]

YamlGetVariables(rawArtifact) == inspectVariables(rawArtifact)

\* a variant of Process that always leaves the missing variables in place
YamlProcessSkipsMissing(tp, rawArtifact, vs) ==
    replaceVariables(rawArtifact, inspectVariables(rawArtifact), vs, TRUE)

\* a variant of Process that returns nothing for a text without variables
YamlProcessOnlyTemplated(tp, rawArtifact, vs) ==
    IF inspectVariables(rawArtifact) = <<>> THEN [err |-> NoErr, yaml |-> Nil]
    ELSE replaceVariables(rawArtifact, inspectVariables(rawArtifact), vs, tp.skipVariables)

\* Process: "if err != nil { return nil, err }; return processedYaml, nil"
YamlProcess(tp, rawArtifact, vs) ==
    LET variables0 == inspectVariables(rawArtifact)
        processedYaml == replaceVariables(rawArtifact, variables0, vs, tp.skipVariables)
    IN  IF processedYaml.err # NoErr THEN [err |-> processedYaml.err, yaml |-> Nil]
        ELSE [err |-> NoErr, yaml |-> processedYaml.yaml]

\* a variant of newTemplateClient that drops the listVariablesOnly flag
newTemplateClientNeverLists(listVariablesOnly, c) ==
    [listVariablesOnly |-> FALSE, provider |-> c.provider, repository |-> c.repository,
     processor |-> newDefaultYamlProcessor(listVariablesOnly)]

\* a variant of newTemplateClient whose processor skips the missing variables
newTemplateClientSkipping(listVariablesOnly, c) ==
    [listVariablesOnly |-> listVariablesOnly, provider |-> c.provider,
     repository |-> c.repository,
     processor |-> newDefaultYamlProcessor(TRUE)]

\* newTemplateClient, TemplateClientInput
newTemplateClient(listVariablesOnly, c) ==
    [listVariablesOnly |-> listVariablesOnly, provider |-> c.provider,
     repository |-> c.repository,
     processor |-> newDefaultYamlProcessor(listVariablesOnly)]

\* a variant of invalidArguments that accepts everything
invalidArgumentsNever(targetNamespace) == FALSE

\* the argument check at the head of Get
invalidArguments(targetNamespace) == targetNamespace = ""

\* the template returned in list-variables-only mode
listedTemplate(names) == [NilTemplate EXCEPT !.nil = FALSE, !.variables = names]

\* a variant of renderedTemplate that leaves the objects where they were
renderedTemplateUnfixed(objs, targetNamespace) ==
    [NilTemplate EXCEPT !.nil = FALSE, !.objs = objs, !.targetNamespace = targetNamespace]

\* a variant of renderedTemplate that moves only the objects without a namespace
renderedTemplateKeepsGiven(objs, targetNamespace) ==
    [NilTemplate EXCEPT !.nil = FALSE,
                        !.objs = [i \in 1..Len(objs) |->
                                    IF isResourceNamespaced(objs[i].kind) /\ objs[i].namespace = ""
                                    THEN [objs[i] EXCEPT !.namespace = targetNamespace]
                                    ELSE objs[i]],
                        !.targetNamespace = targetNamespace]

\* the template returned after a full render
renderedTemplate(objs, targetNamespace) ==
    [NilTemplate EXCEPT !.nil = FALSE,
                        !.objs = fixTargetNamespace(objs, targetNamespace),
                        !.targetNamespace = targetNamespace]

\* a variant of TemplateGet that substitutes before it discovers the variables
TemplateGetSubstitutesFirst(c, fs, rf, vs, version, flavor, targetNamespace) ==
    LET name == ArtifactName(version, flavor)
        t1 == <<Ev("ArtifactName", version, flavor)>>
        ov == getLocalOverride(fs, c.provider, version, name)
        t2 == t1 \o ov.trace
        gf == GetFile(rf, version, name)
        fetched == ov.err = NoErr /\ (~ov.content.nil \/ gf.err = NoErr)
        rawArtifact == IF ov.content.nil THEN gf.content ELSE ov.content
        t3 == IF ov.content.nil THEN t2 \o <<Ev("GetFile", version, name)>> ELSE t2
        processedYaml == YamlProcess(c.processor, rawArtifact.bytes, vs)
        t4 == t3 \o <<Ev("Process", "", "")>>
        names == YamlGetVariables(rawArtifact.bytes)
        t5 == t4 \o <<Ev("GetVariables", "", "")>>
        objs == ToUnstructured(processedYaml.yaml.bytes)
        t6 == t5 \o <<Ev("ToUnstructured", "", "")>>
    IN  IF invalidArguments(targetNamespace)
        THEN Failed(Err("InvalidArguments", "targetNamespace"), Nil, <<>>)
        ELSE IF ov.err # NoErr THEN Failed(ov.err, Nil, t2)
        ELSE IF ~fetched THEN Failed(gf.err, Nil, t3)
        ELSE IF processedYaml.err # NoErr THEN Failed(processedYaml.err, rawArtifact, t4)
        ELSE IF c.listVariablesOnly
        THEN Result(listedTemplate(names), NoErr, rawArtifact, t5)
        ELSE IF objs.err # NoErr THEN Failed(objs.err, rawArtifact, t6)
        ELSE Result(renderedTemplate(objs.objs, targetNamespace), NoErr, rawArtifact,
                    t6 \o <<Ev("fixTargetNamespace", "", targetNamespace)>>)

\* templateClient.Get
TemplateGet(c, fs, rf, vs, version, flavor, targetNamespace) ==
    LET name == ArtifactName(version, flavor)
        t1 == <<Ev("ArtifactName", version, flavor)>>
        ov == getLocalOverride(fs, c.provider, version, name)
        t2 == t1 \o ov.trace
        gf == GetFile(rf, version, name)
        fetched == ov.err = NoErr /\ (~ov.content.nil \/ gf.err = NoErr)
        rawArtifact == IF ov.content.nil THEN gf.content ELSE ov.content
        t3 == IF ov.content.nil THEN t2 \o <<Ev("GetFile", version, name)>> ELSE t2
        names == YamlGetVariables(rawArtifact.bytes)
        t4 == t3 \o <<Ev("GetVariables", "", "")>>
        processedYaml == YamlProcess(c.processor, rawArtifact.bytes, vs)
        t5 == t4 \o <<Ev("Process", "", "")>>
        objs == ToUnstructured(processedYaml.yaml.bytes)
        t6 == t5 \o <<Ev("ToUnstructured", "", "")>>
    IN  IF invalidArguments(targetNamespace)
        THEN Failed(Err("InvalidArguments", "targetNamespace"), Nil, <<>>)
        ELSE IF ov.err # NoErr THEN Failed(ov.err, Nil, t2)
        ELSE IF ~fetched THEN Failed(gf.err, Nil, t3)
        ELSE IF c.listVariablesOnly
        THEN Result(listedTemplate(names), NoErr, rawArtifact, t4)
        ELSE IF processedYaml.err # NoErr THEN Failed(processedYaml.err, rawArtifact, t5)
        ELSE IF objs.err # NoErr THEN Failed(objs.err, rawArtifact, t6)
        ELSE Result(renderedTemplate(objs.objs, targetNamespace), NoErr, rawArtifact,
                    t6 \o <<Ev("fixTargetNamespace", "", targetNamespace)>>)

-----------------------------------------------------------------------------
(* The processor that fetches, and the template client built on it *)

newDefaultTemplateProcessor(skipVariables, provider, repository) ==
    [skipVariables |-> skipVariables, provider |-> provider, repository |-> repository]

Fetch(tp, fs, rf, version, flavor) ==
    LET name == "cluster-template"
        flavored == IF flavor # "" THEN name \o "-" \o flavor ELSE name
        file == flavored \o ".yaml"
        ov == getLocalOverride(fs, tp.provider, version, file)
        gf == GetFile(rf, version, file)
        t1 == ov.trace \o <<Ev("GetFile", version, file)>>
    IN  IF ov.err # NoErr THEN [t |-> NilTemplate, err |-> ov.err, trace |-> ov.trace]
        ELSE IF ov.content.nil
        THEN IF gf.err # NoErr THEN [t |-> NilTemplate, err |-> gf.err, trace |-> t1]
             ELSE [t |-> [NilTemplate EXCEPT !.nil = FALSE, !.rawYaml = gf.content],
                   err |-> NoErr, trace |-> t1]
        ELSE [t |-> [NilTemplate EXCEPT !.nil = FALSE, !.rawYaml = ov.content],
              err |-> NoErr, trace |-> ov.trace]

\* defaultTemplateProcessor.GetVariables sets the variables of the template
ProcessorGetVariables(t) == [t EXCEPT !.variables = inspectVariables(t.rawYaml.bytes)]

\* a variant of ProcessYAML that returns the text as it was when a variable is missing
ProcessYAMLBestEffort(tp, t, vs) ==
    LET processedYaml == replaceVariables(t.rawYaml.bytes, t.variables, vs, tp.skipVariables)
    IN  IF processedYaml.err # NoErr THEN [err |-> NoErr, yaml |-> t.rawYaml]
        ELSE [err |-> NoErr, yaml |-> processedYaml.yaml]

ProcessYAML(tp, t, vs) ==
    LET processedYaml == replaceVariables(t.rawYaml.bytes, t.variables, vs, tp.skipVariables)
    IN  IF processedYaml.err # NoErr THEN [err |-> processedYaml.err, yaml |-> Nil]
        ELSE [err |-> NoErr, yaml |-> processedYaml.yaml]

newFetchingTemplateClient(listVariablesOnly, c) ==
    [listVariablesOnly |-> listVariablesOnly, provider |-> c.provider,
     repository |-> c.repository,
     processor |-> newDefaultTemplateProcessor(listVariablesOnly, c.provider, c.repository)]

\* templateClient.Get over the fetching processor
FetchingTemplateGet(c, fs, rf, vs, version, flavor, targetNamespace) ==
    LET fetched == Fetch(c.processor, fs, rf, version, flavor)
        t1 == <<Ev("Fetch", version, flavor)>> \o fetched.trace
        t == ProcessorGetVariables(fetched.t)
        t2 == t1 \o <<Ev("GetVariables", "", "")>>
        processedYaml == ProcessYAML(c.processor, t, vs)
        t3 == t2 \o <<Ev("Process", "", "")>>
        objs == ToUnstructured(processedYaml.yaml.bytes)
        t4 == t3 \o <<Ev("ToUnstructured", "", "")>>
    IN  IF targetNamespace = ""
        THEN Failed(Err("InvalidArguments", "targetNamespace"), Nil, <<>>)
        ELSE IF fetched.err # NoErr THEN Failed(fetched.err, Nil, t1)
        ELSE IF c.listVariablesOnly THEN Result(t, NoErr, t.rawYaml, t2)
        ELSE IF processedYaml.err # NoErr THEN Failed(processedYaml.err, t.rawYaml, t3)
        ELSE IF objs.err # NoErr THEN Failed(objs.err, t.rawYaml, t4)
        ELSE Result([t EXCEPT !.objs = fixTargetNamespace(objs.objs, targetNamespace),
                              !.targetNamespace = targetNamespace],
                    NoErr, t.rawYaml,
                    t4 \o <<Ev("fixTargetNamespace", "", targetNamespace)>>)

-----------------------------------------------------------------------------
(* The state machine *)

InputVersions == Versions \cup {""}
Flavors == {"", "dev"}
TargetNamespaces == {"", "ns1"}

RECURSIVE SubsetsUpTo(_, _)
SubsetsUpTo(S, k) ==
    IF k = 0 THEN {{}}
    ELSE LET smaller == SubsetsUpTo(S, k - 1)
         IN  smaller \cup {T \cup {x} : T \in smaller, x \in S}

Inputs(provider, option, version, flavor, targetNamespace, listVariablesOnly) ==
    [provider |-> provider, option |-> option, version |-> version, flavor |-> flavor,
     targetNamespace |-> targetNamespace, listVariablesOnly |-> listVariablesOnly]

NoInputs == Inputs(NoClient.provider, NoRepository, "", "", "", FALSE)

Last(op, in, r) ==
    [op |-> op, in |-> in, out |-> r.out, err |-> r.err, raw |-> r.raw, trace |-> r.trace]

Init ==
    /\ calls = <<>>
    /\ cluster = NoCluster
    /\ cfgPath = ""
    /\ files \in UNION {[S -> FileEntries] : S \in SubsetsUpTo(OverridePaths, MaxOverrides)}
    /\ repoFiles \in RepoContents
    /\ variables \in VariableSources
    /\ client = NoClient
    /\ last = Last("none", NoInputs, Failed(NoErr, Nil, <<>>))

\* repository.New(provider, configVariablesClient, options...)
New(provider, option) ==
    LET r == newRepositoryClient(provider, option, repoFiles)
    IN  /\ client' = r.client
        /\ last' = Last("New", Inputs(provider, option, "", "", "", FALSE),
                        Failed(r.err, Nil, r.trace))
        /\ UNCHANGED <<calls, cluster, cfgPath, files, repoFiles, variables>>

\* client.Components().Get(version, targetNamespace, watchingNamespace)
GetComponents(version, targetNamespace) ==
    /\ client # NoClient
    /\ last' = Last("ComponentsGet",
                    Inputs(client.provider, NoRepository, version, "", targetNamespace, FALSE),
                    ComponentsGet(client, files, repoFiles, variables, version,
                                  targetNamespace, ""))
    /\ UNCHANGED <<calls, cluster, cfgPath, files, repoFiles, variables, client>>

\* a variant of GetTemplate that records the target namespace in the variable source
GetTemplateStoresNamespace(listVariablesOnly, version, flavor, targetNamespace) ==
    /\ client # NoClient
    /\ last' = Last("TemplateGet",
                    Inputs(client.provider, NoRepository, version, flavor, targetNamespace,
                           listVariablesOnly),
                    TemplateGet(newTemplateClient(listVariablesOnly, client), files, repoFiles,
                                variables, version, flavor, targetNamespace))
    /\ variables' = [variables EXCEPT !["NAMESPACE"] = Lit(targetNamespace)]
    /\ UNCHANGED <<calls, cluster, cfgPath, files, repoFiles, client>>

\* the template client over the stateless processor: Get(version, flavor, targetNamespace)
GetTemplate(listVariablesOnly, version, flavor, targetNamespace) ==
    /\ client # NoClient
    /\ last' = Last("TemplateGet",
                    Inputs(client.provider, NoRepository, version, flavor, targetNamespace,
                           listVariablesOnly),
                    TemplateGet(newTemplateClient(listVariablesOnly, client), files, repoFiles,
                                variables, version, flavor, targetNamespace))
    /\ UNCHANGED <<calls, cluster, cfgPath, files, repoFiles, variables, client>>

\* the template client over the fetching processor: Get(version, flavor, targetNamespace)
GetTemplateFetching(listVariablesOnly, version, flavor, targetNamespace) ==
    /\ client # NoClient
    /\ last' = Last("FetchingTemplateGet",
                    Inputs(client.provider, NoRepository, version, flavor, targetNamespace,
                           listVariablesOnly),
                    FetchingTemplateGet(newFetchingTemplateClient(listVariablesOnly, client),
                                        files, repoFiles, variables, version, flavor,
                                        targetNamespace))
    /\ UNCHANGED <<calls, cluster, cfgPath, files, repoFiles, variables, client>>

Next ==
    \/ \E p \in Providers :
          \E o \in IF p.url = RelativeURL THEN FakeRepositories ELSE {NoRepository} : New(p, o)
    \/ \E v \in InputVersions, ns \in TargetNamespaces : GetComponents(v, ns)
    \/ \E l \in BOOLEAN, v \in InputVersions, f \in Flavors, ns \in TargetNamespaces :
          GetTemplate(l, v, f, ns)
    \/ \E l \in BOOLEAN, v \in InputVersions, f \in Flavors, ns \in TargetNamespaces :
          GetTemplateFetching(l, v, f, ns)

Spec == Init /\ [][Next]_vars

-----------------------------------------------------------------------------
(* The clusterctl client: its configuration file and GetProviderComponents *)

ConfigFile == "/tmp/some-dir/config.yaml"
ConfigPaths == {"", ConfigFile}

\* path/filepath.Dir on the configuration paths
FilepathDir(path) == IF path = ConfigFile THEN "/tmp/some-dir" ELSE "."

\* config.Client.OverridesPath: the overrides folder next to the configuration
\* file, or in the configuration folder of the home directory
OverridesPath(path) ==
    IF path # "" THEN FilepathJoin(<<FilepathDir(path), overrideFolder>>)
    ELSE FilepathJoin(<<HomeDir, ConfigFolder, overrideFolder>>)

ComponentsInput(targetNamespace, watchingNamespace, skipVariables) ==
    [TargetNamespace |-> targetNamespace, WatchingNamespace |-> watchingNamespace,
     SkipVariables |-> skipVariables]

\* the providers of the configuration: one served by an injected repository, one
\* by the backend of its URL
ConfiguredProviders ==
    { NewProvider("aws", RelativeURL, "InfrastructureProvider"),
      NewProvider("cluster-api", GitHubLatestURL, "CoreProvider") }

\* the components of a provider of the configuration: a repository client for
\* the provider, then Components().Get(version, targetNamespace, watchingNamespace)
getComponentsByName(provider, option, version, options, fs, rf, vs) ==
    LET r == newRepositoryClient(provider, option, rf)
        components == ComponentsGet(r.client, fs, rf, vs, version, options.TargetNamespace,
                                    options.WatchingNamespace)
    IN  IF r.err # NoErr THEN Failed(r.err, Nil, r.trace)
        ELSE Result(components.out, components.err, components.raw,
                    r.trace \o components.trace)

\* where override files may exist on disk, for either configuration
ClientOverridePaths ==
    { FilepathJoin(<<OverridesPath(c), ManifestLabel(p), v, "components.yaml">>) :
        c \in ConfigPaths, p \in ConfiguredProviders, v \in OverrideVersions }

InitClient ==
    /\ calls = <<>>
    /\ cluster = NoCluster
    /\ cfgPath \in ConfigPaths
    /\ files \in UNION {[S -> FileEntries] : S \in SubsetsUpTo(ClientOverridePaths, MaxOverrides)}
    /\ repoFiles \in RepoContents
    /\ variables \in VariableSources
    /\ client = NoClient
    /\ last = Last("none", [provider |-> NoClient.provider, option |-> NoRepository,
                            version |-> "", options |-> ComponentsInput("", "", FALSE)],
                   Failed(NoErr, Nil, <<>>))

\* client.GetProviderComponents(provider[:version], providerType, options)
GetProviderComponents(provider, option, version, options) ==
    /\ last' = Last("GetProviderComponents",
                    [provider |-> provider, option |-> option, version |-> version,
                     options |-> options],
                    getComponentsByName(provider, option, version, options, files, repoFiles,
                                        variables))
    /\ UNCHANGED <<calls, cluster, cfgPath, files, repoFiles, variables, client>>

NextClient ==
    \E p \in ConfiguredProviders, v \in InputVersions, skip \in BOOLEAN :
        \E o \in IF p.url = RelativeURL THEN FakeRepositories ELSE {NoRepository} :
            \E ns \in TargetNamespaces :
                GetProviderComponents(p, o, v, ComponentsInput(ns, "", skip))

SpecClient == InitClient /\ [][NextClient]_vars

-----------------------------------------------------------------------------
(* The default version: backends holding any few of the tags *)

MaxTags == 3

\* a backend holding the components of each of its tags
TaggedContents ==
    { [k \in T \X {"components.yaml"} |-> RawCluster] :
        T \in {S \in SubsetsUpTo(Tags, MaxTags) : \E v \in S : ParseSemantic(v).ok} }

InitVersions ==
    /\ calls = <<>>
    /\ cluster = NoCluster
    /\ cfgPath = ""
    /\ files = [path \in {} |-> RawEmpty]
    /\ repoFiles \in TaggedContents
    /\ variables \in VariableSources
    /\ client = NoClient
    /\ last = Last("none", NoInputs, Failed(NoErr, Nil, <<>>))

NextVersions ==
    \/ \E p \in VersionedProviders : New(p, NoRepository)
    \/ \E v \in {"", "v1.0.0"} : GetComponents(v, "ns1")

SpecVersions == InitVersions /\ [][NextVersions]_vars

-----------------------------------------------------------------------------
(* The processors on their own: every text up to a length, every variable source *)

MaxTextLen == 3

\* literal text and the placeholders of two variables
TextTokens == {Lit("a"), Var("A"), Var("B")}

RECURSIVE TextsUpTo(_)
TextsUpTo(n) ==
    IF n = 0 THEN {<<>>}
    ELSE LET shorter == TextsUpTo(n - 1)
         IN  shorter \cup {Append(t, tok) : t \in shorter, tok \in TextTokens}

Texts == TextsUpTo(MaxTextLen)

\* a variable has no value, a plain value, or a value that reads as a placeholder
ProcessorSources == [{"A", "B"} -> {NoValue, Lit("x"), Var("B")}]

ProcessorInputs(skipVariables, discovered) ==
    [skipVariables |-> skipVariables, discovered |-> discovered]

\* the variables a processor call worked with, and the bytes it returned
Processed(op, in, raw, names, r) ==
    [op |-> op, in |-> in, raw |-> Bytes(raw), out |-> [names |-> names, yaml |-> r.yaml],
     err |-> r.err, trace |-> <<>>]

InitProcessor ==
    /\ calls = <<>>
    /\ cluster = NoCluster
    /\ cfgPath = ""
    /\ files = [path \in {} |-> RawEmpty]
    /\ repoFiles \in RepoContents
    /\ variables \in ProcessorSources
    /\ client = NoClient
    /\ last = Processed("none", ProcessorInputs(FALSE, FALSE), <<>>, <<>>,
                        [err |-> NoErr, yaml |-> Nil])

\* defaultYamlProcessor.GetVariables(rawArtifact)
CallGetVariables(rawArtifact) ==
    /\ last' = Processed("GetVariables", ProcessorInputs(FALSE, TRUE), rawArtifact,
                         YamlGetVariables(rawArtifact), [err |-> NoErr, yaml |-> Nil])
    /\ UNCHANGED <<calls, cluster, cfgPath, files, repoFiles, variables, client>>

\* defaultTemplateProcessor.GetVariables(t) on a fetched template
CallTemplateGetVariables(rawYaml) ==
    LET t == ProcessorGetVariables([NilTemplate EXCEPT !.nil = FALSE, !.rawYaml = Bytes(rawYaml)])
    IN  /\ last' = Processed("TemplateGetVariables", ProcessorInputs(FALSE, TRUE), rawYaml,
                             t.variables, [err |-> NoErr, yaml |-> Nil])
        /\ UNCHANGED <<calls, cluster, cfgPath, files, repoFiles, variables, client>>

\* defaultYamlProcessor.Process(rawArtifact, variablesGetter)
CallProcess(skipVariables, rawArtifact) ==
    /\ last' = Processed("Process", ProcessorInputs(skipVariables, TRUE), rawArtifact,
                         inspectVariables(rawArtifact),
                         YamlProcess(newDefaultYamlProcessor(skipVariables), rawArtifact,
                                     variables))
    /\ UNCHANGED <<calls, cluster, cfgPath, files, repoFiles, variables, client>>

\* defaultTemplateProcessor.ProcessYAML(t), on a template as Fetch returned it or
\* after GetVariables
CallProcessYAML(skipVariables, rawYaml, discovered) ==
    LET fetched == [NilTemplate EXCEPT !.nil = FALSE, !.rawYaml = Bytes(rawYaml)]
        t == IF discovered THEN ProcessorGetVariables(fetched) ELSE fetched
        tp == newDefaultTemplateProcessor(skipVariables, NoClient.provider, NoRepository)
    IN  /\ last' = Processed("ProcessYAML", ProcessorInputs(skipVariables, discovered), rawYaml,
                             t.variables, ProcessYAML(tp, t, variables))
        /\ UNCHANGED <<calls, cluster, cfgPath, files, repoFiles, variables, client>>

NextProcessor ==
    \/ \E raw \in Texts : CallGetVariables(raw)
    \/ \E raw \in Texts : CallTemplateGetVariables(raw)
    \/ \E skip \in BOOLEAN, raw \in Texts : CallProcess(skip, raw)
    \/ \E skip \in BOOLEAN, raw \in Texts, discovered \in BOOLEAN :
          CallProcessYAML(skip, raw, discovered)

SpecProcessor == InitProcessor /\ [][NextProcessor]_vars

-----------------------------------------------------------------------------
(* templateOptionsToVariables: the options of GetClusterTemplate as variables *)

\* how many variables the variable source holds before the first call
MaxExisting == 2

OptionVariables ==
    {"CLUSTER_NAME", "NAMESPACE", "KUBERNETES_VERSION", "CONTROL_PLANE_MACHINE_COUNT",
     "WORKER_MACHINE_COUNT"}

\* what the environment or the configuration file may hold for each variable
ExistingValue(n) ==
    CASE n = "CLUSTER_NAME" -> Lit("old")
      [] n = "NAMESPACE" -> Lit("old-ns")
      [] n = "KUBERNETES_VERSION" -> Lit("v3.4.5")
      [] n = "CONTROL_PLANE_MACHINE_COUNT" -> Lit("3")
      [] n = "WORKER_MACHINE_COUNT" -> Lit("10")

\* a *int64: nil, or a pointer to a number
NilInt64 == [nil |-> TRUE, v |-> 0]
Int64Ptr(n) == [nil |-> FALSE, v |-> n]

GetClusterTemplateOptions(clusterName, targetNamespace, kubernetesVersion, controlPlaneMachineCount, workerMachineCount) ==
    [ClusterName |-> clusterName, TargetNamespace |-> targetNamespace,
     KubernetesVersion |-> kubernetesVersion,
     ControlPlaneMachineCount |-> controlPlaneMachineCount,
     WorkerMachineCount |-> workerMachineCount]

InvalidName == "A!££%"
TemplateOptions ==
    { GetClusterTemplateOptions(c, n, k, cp, w) :
        c \in {"foo", InvalidName}, n \in {"bar", InvalidName},
        k \in {"", "v1.2.3", InvalidName},
        cp \in {NilInt64, Int64Ptr(-1), Int64Ptr(1)},
        w \in {NilInt64, Int64Ptr(-1), Int64Ptr(2), Int64Ptr(10)} }

\* a DNS-1123 label: lower case alphanumerics and "-", on the names above
validateDNS1123Label(name) == name \in {"foo", "bar", "old", "old-ns", "test", "ns1", "default"}

Digits == <<"0", "1", "2", "3", "4", "5", "6", "7", "8", "9">>

\* strconv.Itoa: the decimal digits, most significant first, after the sign
RECURSIVE Itoa(_)
Itoa(n) ==
    IF n < 0 THEN "-" \o Itoa(0 - n)
    ELSE IF n < 10 THEN Digits[n + 1]
    ELSE Itoa(n \div 10) \o Digits[(n % 10) + 1]

\* strconv.ParseInt on the machine counts a variable may hold
ParseInt(s) ==
    IF \E n \in 0..99 : Itoa(n) = s
    THEN [err |-> NoErr, v |-> CHOOSE n \in 0..99 : Itoa(n) = s]
    ELSE [err |-> Err("InvalidSyntax", s), v |-> 0]

\* a variant of SetVariable that keeps the value the source already holds
SetVariableIfUnset(vs, key, value) ==
    IF vs[key] # NoValue THEN vs ELSE [vs EXCEPT ![key] = Lit(value)]

\* VariablesClient.Set: the value replaces whatever the source held for the key
SetVariable(vs, key, value) == [vs EXCEPT ![key] = Lit(value)]

\* a variant of machineCount that does not look at the variable source
machineCountOrDefault(vs, option, key, default) ==
    IF ~option.nil THEN [err |-> NoErr, v |-> option.v] ELSE [err |-> NoErr, v |-> default]

\* the machine count to store: the option, or else the variable the source
\* already holds, or else the default
machineCount(vs, option, key, default) ==
    IF ~option.nil THEN [err |-> NoErr, v |-> option.v]
    ELSE IF GetVariable(vs, key).err # NoErr THEN [err |-> NoErr, v |-> default]
    ELSE ParseInt(GetVariable(vs, key).value.s)

\* templateOptionsToVariables: each option is validated and then stored, in
\* turn; the first invalid option ends the call
templateOptionsToVariables(options, vs) ==
    LET v1 == SetVariable(vs, "NAMESPACE", options.TargetNamespace)
        v2 == SetVariable(v1, "CLUSTER_NAME", options.ClusterName)
        v3 == IF options.KubernetesVersion # ""
              THEN SetVariable(v2, "KUBERNETES_VERSION", options.KubernetesVersion)
              ELSE v2
        cp == machineCount(v3, options.ControlPlaneMachineCount,
                           "CONTROL_PLANE_MACHINE_COUNT", 1)
        v4 == SetVariable(v3, "CONTROL_PLANE_MACHINE_COUNT", Itoa(cp.v))
        w == machineCount(v4, options.WorkerMachineCount, "WORKER_MACHINE_COUNT", 0)
        v5 == SetVariable(v4, "WORKER_MACHINE_COUNT", Itoa(w.v))
    IN  IF ~validateDNS1123Label(options.TargetNamespace)
        THEN [err |-> Err("InvalidTargetNamespace", options.TargetNamespace), vs |-> vs]
        ELSE IF ~validateDNS1123Label(options.ClusterName)
        THEN [err |-> Err("InvalidClusterName", options.ClusterName), vs |-> v1]
        ELSE IF options.KubernetesVersion # "" /\ ~ParseSemantic(options.KubernetesVersion).ok
        THEN [err |-> Err("InvalidKubernetesVersion", options.KubernetesVersion), vs |-> v2]
        ELSE IF cp.err # NoErr \/ cp.v < 1
        THEN [err |-> Err("InvalidControlPlaneMachineCount", Itoa(cp.v)), vs |-> v3]
        ELSE IF w.err # NoErr \/ w.v < 0
        THEN [err |-> Err("InvalidWorkerMachineCount", Itoa(w.v)), vs |-> v4]
        ELSE [err |-> NoErr, vs |-> v5]

\* the variable sources of newFakeConfig().WithVar(...): a few of the variables
OptionSources ==
    { [n \in OptionVariables |-> IF n \in S THEN ExistingValue(n) ELSE NoValue] :
        S \in SubsetsUpTo(OptionVariables, MaxExisting) }

InitOptions ==
    /\ calls = <<>>
    /\ cluster = NoCluster
    /\ cfgPath = ""
    /\ files = [path \in {} |-> RawEmpty]
    /\ repoFiles \in RepoContents
    /\ variables \in OptionSources
    /\ client = NoClient
    /\ last = Last("none", [options |-> GetClusterTemplateOptions("", "", "", NilInt64, NilInt64),
                            before |-> variables],
                   Failed(NoErr, Nil, <<>>))

\* c.templateOptionsToVariables(options)
CallTemplateOptionsToVariables(options) ==
    LET r == templateOptionsToVariables(options, variables)
    IN  /\ variables' = r.vs
        /\ last' = Last("templateOptionsToVariables",
                        [options |-> options, before |-> variables],
                        Failed(r.err, Nil, <<>>))
        /\ UNCHANGED <<calls, cluster, cfgPath, files, repoFiles, client>>

NextOptions == \E options \in TemplateOptions : CallTemplateOptionsToVariables(options)

SpecOptions == InitOptions /\ [][NextOptions]_vars

-----------------------------------------------------------------------------
(* GetClusterTemplate: a cluster template from a repository, a URL or a ConfigMap *)

\* NewTemplate: "return nil, nil", whatever the arguments
NewTemplate(rawYaml, vs, targetNamespace, listVariablesOnly) ==
    [t |-> NilTemplate, err |-> NoErr]

\* util.FromUnstructured: the documents of the objects, one after the other
FromUnstructured(objs) ==
    [i \in 1..(3 * Len(objs)) |->
        LET o == objs[(i + 2) \div 3]
        IN  CASE i % 3 = 1 -> Lit(o.kind)
              [] i % 3 = 2 -> Lit(o.namespace)
              [] OTHER -> Lit(o.name)]

\* template.Variables, TargetNamespace and Yaml; on the nil template they
\* dereference a nil pointer
TemplateValues(t) ==
    IF t.nil THEN [panic |-> TRUE, variables |-> <<>>, targetNamespace |-> "", yaml |-> <<>>]
    ELSE [panic |-> FALSE, variables |-> t.variables, targetNamespace |-> t.targetNamespace,
          yaml |-> FromUnstructured(t.objs)]

infraProviderConfig == NewProvider("infra", "url", "InfrastructureProvider")
TemplatePath == "/tmp/cc/cluster-template.yaml"

\* where the template comes from: ProviderRepositorySource with the provider
\* given as name:version or left to the inventory of the cluster, URLSource,
\* ConfigMapSource
ProviderRepositorySource(infrastructureProvider, flavor) ==
    [kind |-> "repository", provider |-> infrastructureProvider, flavor |-> flavor, url |-> ""]
URLSource(url) == [kind |-> "url", provider |-> "", flavor |-> "", url |-> url]
ConfigMapSource == [kind |-> "configmap", provider |-> "", flavor |-> "", url |-> ""]
TemplateSources ==
    { ProviderRepositorySource("infra:v3.0.0", ""), ProviderRepositorySource("", ""),
      URLSource(TemplatePath), ConfigMapSource }

\* the name and the version of "name:version"; an empty provider is the one of
\* the inventory of the cluster
parseProviderName(provider) ==
    IF provider = "infra:v3.0.0" THEN [name |-> "infra", version |-> "v3.0.0"]
    ELSE [name |-> infraProviderConfig.name, version |-> "v3.0.0"]

\* the result of a call, after the calls made before it
After(done, r) == Result(r.out, r.err, r.raw, done \o r.trace)

\* getTemplateFromRepository: Templates().Get of the client of the repository
\* newFakeRepository(...).WithPaths("root", "components").WithDefaultVersion("v3.0.0"),
\* built on the fetching processor or on the stateless one
getTemplateFromRepository(source, targetNamespace, listVariablesOnly, fetching, fs, rf, vs) ==
    LET p == parseProviderName(source.provider)
        c == [provider |-> infraProviderConfig,
              repository |-> [kind |-> "fake", defaultVersion |-> "v3.0.0",
                              rootPath |-> "root", componentsPath |-> "components"]]
        call == <<Ev("Templates.Get", p.version, targetNamespace)>>
    IN  After(call,
              IF fetching
              THEN FetchingTemplateGet(newFetchingTemplateClient(listVariablesOnly, c), fs, rf,
                                       vs, p.version, source.flavor, targetNamespace)
              ELSE TemplateGet(newTemplateClient(listVariablesOnly, c), fs, rf, vs, p.version,
                               source.flavor, targetNamespace))

\* getTemplateFromURL and getTemplateFromConfigMap: the bytes read, given to
\* NewTemplate
getTemplateFromBytes(rawYaml, targetNamespace, listVariablesOnly, vs) ==
    LET r == NewTemplate(rawYaml, vs, targetNamespace, listVariablesOnly)
    IN  Result(r.t, r.err, rawYaml, <<Ev("NewTemplate", "", targetNamespace)>>)

\* the target namespace of the call: the option, or the current namespace of
\* the kubeconfig context when the option is empty
currentNamespace(options, cl) ==
    IF options.TargetNamespace # ""
    THEN [namespace |-> options.TargetNamespace, err |-> NoErr, trace |-> <<>>]
    ELSE [namespace |-> cl.currentNamespace,
          err |-> IF cl.currentNamespace = "" THEN Err("CurrentNamespace", "") ELSE NoErr,
          trace |-> <<Ev("CurrentNamespace", "", cl.currentNamespace)>>]

\* GetClusterTemplate: the target namespace, the options as variables, then the
\* template of the source
getClusterTemplate(options, source, listVariablesOnly, fetching, cl, fs, rf, vs) ==
    LET ns == currentNamespace(options, cl)
        resolved == [options EXCEPT !.TargetNamespace = ns.namespace]
        stored == templateOptionsToVariables(resolved, vs)
        t1 == ns.trace \o <<Ev("templateOptionsToVariables", "", "")>>
        r == CASE source.kind = "repository" ->
                    getTemplateFromRepository(source, ns.namespace, listVariablesOnly, fetching,
                                              fs, rf, stored.vs)
               [] source.kind = "url" ->
                    getTemplateFromBytes(Bytes(fs[source.url].content), ns.namespace,
                                         listVariablesOnly, stored.vs)
               [] OTHER ->
                    getTemplateFromBytes(Bytes(cl.configMap), ns.namespace, listVariablesOnly,
                                         stored.vs)
    IN  IF ns.err # NoErr THEN [r |-> Failed(ns.err, Nil, ns.trace), vs |-> vs]
        ELSE IF stored.err # NoErr THEN [r |-> Failed(stored.err, Nil, t1), vs |-> stored.vs]
        ELSE [r |-> After(t1, r), vs |-> stored.vs]

\* the cluster, the file and the repository all hold the same template
InitTemplate ==
    /\ \E raw \in {RawCluster, RawMixed, RawFoo} :
          /\ cluster \in { [currentNamespace |-> n, configMap |-> raw] : n \in {"default", ""} }
          /\ files = [path \in {TemplatePath} |-> [stat |-> "", read |-> "", content |-> raw]]
          /\ repoFiles = [k \in {<<"v3.0.0", "cluster-template.yaml">>} |-> raw]
    /\ calls = <<>>
    /\ cfgPath = ""
    /\ variables \in OptionSources
    /\ client = NoClient
    /\ last = Last("none",
                   [options |-> GetClusterTemplateOptions("", "", "", NilInt64, NilInt64),
                    source |-> ConfigMapSource, listVariablesOnly |-> FALSE,
                    fetching |-> FALSE, before |-> variables],
                   Failed(NoErr, Nil, <<>>))

\* client.GetClusterTemplate(options)
GetClusterTemplate(options, source, listVariablesOnly, fetching) ==
    \E g \in {getClusterTemplate(options, source, listVariablesOnly, fetching, cluster, files,
                                  repoFiles, variables)} :
        /\ variables' = g.vs
        /\ last' = Last("GetClusterTemplate",
                        [options |-> options, source |-> source,
                         listVariablesOnly |-> listVariablesOnly, fetching |-> fetching,
                         before |-> variables],
                        g.r)
        /\ UNCHANGED <<calls, cluster, cfgPath, files, repoFiles, client>>

\* the namespace is given or left to the cluster, the cluster name may be invalid
NextTemplate ==
    \E c \in {"test", InvalidName}, n \in {"", "ns1"}, source \in TemplateSources,
       listVariablesOnly \in BOOLEAN, fetching \in BOOLEAN :
        GetClusterTemplate(GetClusterTemplateOptions(c, n, "", Int64Ptr(1), NilInt64), source,
                           listVariablesOnly, fetching)

SpecTemplate == InitTemplate /\ [][NextTemplate]_vars

-----------------------------------------------------------------------------
(* Concurrent Get calls on one repository client *)

Procs == {1, 2}

\* a variant of LocalsOf in which every call works on the same variables
LocalsShared(p) == 1

\* the local variables of a call are its own: "t, err := ...", "rawArtifact, err := ..."
LocalsOf(p) == p

\* what a call holds between its steps
NoLocals == [raw |-> Nil, variables |-> <<>>, yaml |-> Nil, objs |-> <<>>]
Idle == [pc |-> "idle", op |-> "none", in |-> NoInputs, out |-> NilTemplate, err |-> NoErr]

\* the client shared by the calls, and the Get calls made on it
SharedProvider == NewProvider("aws", GitHubURL, "InfrastructureProvider")
ConcurrentCalls ==
    { <<op, Inputs(SharedProvider, NoRepository, v, "", ns, l)>> :
        op \in {"ComponentsGet", "TemplateGet", "FetchingTemplateGet"},
        v \in Versions, ns \in {"ns1", "ns2"}, l \in BOOLEAN }
    \cup { <<"TemplateGet", Inputs(SharedProvider, NoRepository, "v1.0.0", "", "", FALSE)>>,
           <<"ComponentsGet", Inputs(SharedProvider, NoRepository, "", "", "ns1", FALSE)>> }

InitConcurrent ==
    /\ calls = [pcs |-> [p \in Procs |-> Idle], locals |-> [p \in Procs |-> NoLocals]]
    /\ cluster = NoCluster
    /\ cfgPath = ""
    /\ files \in UNION {[S -> FileEntries] :
                          S \in SubsetsUpTo({FilepathJoin(<<HomeDir, ConfigFolder, overrideFolder,
                                                           ManifestLabel(SharedProvider),
                                                           "v1.0.0", "cluster-template.yaml">>)},
                                             MaxOverrides)}
    /\ repoFiles \in RepoContents
    /\ variables \in VariableSources
    /\ client = newRepositoryClient(SharedProvider, NoRepository, repoFiles).client
    /\ last = Last("none", NoInputs, Failed(NoErr, Nil, <<>>))

\* a call moves on: its position, and what its local variables hold
Moved(p, call, locals) ==
    /\ calls' = [pcs |-> [calls.pcs EXCEPT ![p] = call],
                 locals |-> [calls.locals EXCEPT ![LocalsOf(p)] = locals]]
    /\ UNCHANGED <<cluster, cfgPath, files, repoFiles, variables, client, last>>

Returned(call, out, err) == [call EXCEPT !.pc = "done", !.out = out, !.err = err]

\* the call enters Get: the argument check of the template clients
StartGet(p, op, in) ==
    /\ calls.pcs[p].pc = "idle"
    /\ LET call == [Idle EXCEPT !.op = op, !.in = in]
       IN  IF op # "ComponentsGet" /\ invalidArguments(in.targetNamespace)
           THEN Moved(p, Returned(call, NilTemplate, Err("InvalidArguments", "targetNamespace")),
                      NoLocals)
           ELSE Moved(p, [call EXCEPT !.pc = "fetch"], NoLocals)

\* the local override, or else the file of the backend
StepFetch(p) ==
    /\ calls.pcs[p].pc = "fetch"
    /\ \E call \in {calls.pcs[p]} :
          LET in == call.in
              version == IF call.op = "ComponentsGet"
                         THEN componentsVersion(client.repository, in.version).version
                         ELSE in.version
              file == IF call.op = "ComponentsGet" THEN ComponentsPath(client.repository)
                      ELSE ArtifactName(in.version, in.flavor)
              ov == getLocalOverride(files, client.provider, version, file)
              gf == GetFile(repoFiles, version, file)
          IN  IF ov.err # NoErr THEN Moved(p, Returned(call, NilTemplate, ov.err), NoLocals)
              ELSE IF ~ov.content.nil
              THEN Moved(p, [call EXCEPT !.pc = "discover"],
                         [NoLocals EXCEPT !.raw = ov.content])
              ELSE IF gf.err # NoErr THEN Moved(p, Returned(call, NilTemplate, gf.err), NoLocals)
              ELSE Moved(p, [call EXCEPT !.pc = "discover"], [NoLocals EXCEPT !.raw = gf.content])

\* the variables of the artifact; in list-variables-only mode the call returns
StepDiscover(p) ==
    /\ calls.pcs[p].pc = "discover"
    /\ \E call \in {calls.pcs[p]}, l \in {calls.locals[LocalsOf(p)]} :
          LET names == inspectVariables(l.raw.bytes)
              t == [NilTemplate EXCEPT !.nil = FALSE, !.rawYaml = l.raw, !.variables = names]
          IN  IF call.op # "ComponentsGet" /\ call.in.listVariablesOnly
              THEN Moved(p, Returned(call, IF call.op = "TemplateGet" THEN listedTemplate(names)
                                           ELSE t, NoErr), l)
              ELSE Moved(p, [call EXCEPT !.pc = "substitute"], [l EXCEPT !.variables = names])

\* the substitution, reading the variable source
StepSubstitute(p) ==
    /\ calls.pcs[p].pc = "substitute"
    /\ \E call \in {calls.pcs[p]}, l \in {calls.locals[LocalsOf(p)]} :
          LET yaml == CASE call.op = "ComponentsGet" ->
                             replaceVariables(l.raw.bytes, l.variables, variables, FALSE)
                        [] call.op = "TemplateGet" ->
                             YamlProcess(newDefaultYamlProcessor(call.in.listVariablesOnly),
                                         l.raw.bytes, variables)
                        [] OTHER ->
                             ProcessYAML(newDefaultTemplateProcessor(call.in.listVariablesOnly,
                                                                     client.provider,
                                                                     client.repository),
                                         [NilTemplate EXCEPT !.rawYaml = l.raw,
                                                             !.variables = l.variables],
                                         variables)
          IN  IF yaml.err # NoErr THEN Moved(p, Returned(call, NilTemplate, yaml.err), l)
              ELSE Moved(p, [call EXCEPT !.pc = "convert"], [l EXCEPT !.yaml = yaml.yaml])

\* the conversion of the substituted text to objects
StepConvert(p) ==
    /\ calls.pcs[p].pc = "convert"
    /\ \E call \in {calls.pcs[p]}, l \in {calls.locals[LocalsOf(p)]} :
          LET objs == ToUnstructured(l.yaml.bytes)
          IN  IF objs.err # NoErr THEN Moved(p, Returned(call, NilTemplate, objs.err), l)
              ELSE Moved(p, [call EXCEPT !.pc = "normalize"], [l EXCEPT !.objs = objs.objs])

\* the objects are moved to the target namespace, and the call returns
StepNormalize(p) ==
    /\ calls.pcs[p].pc = "normalize"
    /\ \E call \in {calls.pcs[p]}, l \in {calls.locals[LocalsOf(p)]} :
          LET ns == call.in.targetNamespace
              objs == fixTargetNamespace(l.objs, ns)
              out == CASE call.op = "ComponentsGet" ->
                            [NilTemplate EXCEPT !.nil = FALSE, !.variables = l.variables,
                                                !.targetNamespace = ns, !.objs = objs,
                                                !.name = client.provider.name,
                                                !.version =
                                                    componentsVersion(client.repository,
                                                                      call.in.version).version]
                       [] call.op = "TemplateGet" -> renderedTemplate(l.objs, ns)
                       [] OTHER ->
                            [NilTemplate EXCEPT !.nil = FALSE, !.rawYaml = l.raw,
                                                !.variables = l.variables, !.objs = objs,
                                                !.targetNamespace = ns]
          IN  Moved(p, Returned(call, out, NoErr), l)

\* the caller takes the result
EndGet(p) ==
    /\ calls.pcs[p].pc = "done"
    /\ Moved(p, Idle, NoLocals)

NextConcurrent ==
    \E p \in Procs :
        \/ \E c \in ConcurrentCalls : StartGet(p, c[1], c[2])
        \/ StepFetch(p)
        \/ StepDiscover(p)
        \/ StepSubstitute(p)
        \/ StepConvert(p)
        \/ StepNormalize(p)
        \/ EndGet(p)

SpecConcurrent == InitConcurrent /\ [][NextConcurrent]_vars

-----------------------------------------------------------------------------
(* What the properties speak about: the last operation *)

IsGet == last.op \in {"ComponentsGet", "TemplateGet", "FetchingTemplateGet"}
IsTemplateGet == last.op \in {"TemplateGet", "FetchingTemplateGet"}
IsNew == last.op = "New"

\* the positions of the calls of op in the last operation
Calls(op) == {i \in 1..Len(last.trace) : last.trace[i].op = op}
Called(op) == Calls(op) # {}

\* the last Get got past its argument check
PassedArguments == last.op = "ComponentsGet" \/ last.in.targetNamespace # ""

\* the version, the file and the override path the last Get is about
WantedVersion ==
    IF last.op = "ComponentsGet" /\ last.in.version = ""
    THEN client.repository.defaultVersion
    ELSE last.in.version
WantedFile ==
    IF last.op = "ComponentsGet" THEN client.repository.componentsPath
    ELSE IF last.in.flavor = "" THEN "cluster-template.yaml"
    ELSE "cluster-template-" \o last.in.flavor \o ".yaml"
WantedOverridePath ==
    "/home/user/.cluster-api/overrides/" \o ManifestLabel(last.in.provider)
        \o (IF WantedVersion = "" THEN "" ELSE "/" \o WantedVersion) \o "/" \o WantedFile

OverrideReadable ==
    /\ WantedOverridePath \in DOMAIN files
    /\ files[WantedOverridePath].stat = ""
    /\ files[WantedOverridePath].read = ""
OverrideAbsent == WantedOverridePath \notin DOMAIN files
OverrideUnreadable == ~OverrideAbsent /\ ~OverrideReadable

\* the objects of the raw artifact of the last Get after substitution, before
\* the namespaces are fixed
SubstitutedObjs ==
    ToUnstructured(replaceVariables(last.raw.bytes, inspectVariables(last.raw.bytes),
                                    variables, FALSE).yaml.bytes).objs

\* the namespace the last Get renders into: the one it was given, or, for a
\* Components.Get given none, the provider's default namespace
RenderTargetNamespace ==
    IF last.in.targetNamespace # "" THEN last.in.targetNamespace
    ELSE inspectTargetNamespace(SubstitutedObjs)

-----------------------------------------------------------------------------
(* Properties *)

\* C1: when a readable override file exists for the provider, version and file of
\* a Get, the raw artifact of that Get is exactly the bytes of the override file
\* and the Get does not call the backend's GetFile.
C1_OverridePrecedence ==
    (IsGet /\ OverrideReadable) =>
        /\ ~Called("GetFile")
        /\ PassedArguments => last.raw = Bytes(files[WantedOverridePath].content)

C1_Witness ==
    /\ IsGet /\ OverrideReadable /\ last.err = NoErr
    /\ last.raw = Bytes(RawOverride)
    /\ <<WantedVersion, WantedFile>> \in DOMAIN repoFiles

\* C2: when the override path does not exist, the lookup is not an error and the
\* Get reads the artifact with exactly one GetFile call, for the version and
\* the path of the lookup.
C2_AbsentOverrideFallsThrough ==
    (IsGet /\ PassedArguments /\ OverrideAbsent) =>
        /\ last.err.kind \notin {"StatOverride", "ReadOverride"}
        /\ Cardinality(Calls("GetFile")) = 1
        /\ \A i \in Calls("GetFile") :
              /\ last.trace[i] = Ev("GetFile", WantedVersion, WantedFile)
              /\ \E j \in Calls("os.Stat") : j < i

C2_Witness ==
    /\ IsGet /\ OverrideAbsent /\ DOMAIN files # {} /\ last.err = NoErr
    /\ Cardinality(Calls("GetFile")) = 1
    /\ last.raw = Bytes(repoFiles[<<WantedVersion, WantedFile>>])

\* C3: when the override lookup fails for any reason but the path not existing,
\* the Get returns that error and no artifact, and does not call GetFile.
C3_OverrideErrorIsFatal ==
    (IsGet /\ PassedArguments /\ OverrideUnreadable) =>
        /\ last.err.kind \in {"StatOverride", "ReadOverride"}
        /\ last.out.nil
        /\ ~Called("GetFile")

C3_Witness ==
    /\ IsGet /\ OverrideUnreadable /\ last.err = Err("StatOverride", "EACCES")
    /\ <<WantedVersion, WantedFile>> \in DOMAIN repoFiles

\* C4: Templates.Get with an empty targetNamespace fails with an invalid-arguments
\* error, returns no template and makes no call at all before failing.
C4_EmptyTargetNamespaceRejected ==
    (IsTemplateGet /\ last.in.targetNamespace = "") =>
        /\ last.err.kind = "InvalidArguments"
        /\ last.out.nil
        /\ last.trace = <<>>

C4_Witness ==
    /\ last.op = "TemplateGet" /\ last.in.targetNamespace = ""
    /\ last.err.kind = "InvalidArguments"
    /\ OverrideReadable

\* C5: after a successful full render, the template returned by Templates.Get
\* reports the variables discovered in the raw artifact, with the target
\* namespace and the rendered objects.
C5_FullRenderReportsVariables ==
    (IsTemplateGet /\ ~last.in.listVariablesOnly /\ last.err = NoErr) =>
        /\ ~last.out.nil
        /\ last.out.variables = inspectVariables(last.raw.bytes)
        /\ last.out.targetNamespace = last.in.targetNamespace
        /\ Len(last.out.objs) = Len(SubstitutedObjs)

\* C6: in list-variables-only mode Templates.Get succeeds as soon as the
\* variables are discovered: it returns them with no objects and no target
\* namespace, and never substitutes, converts or fixes namespaces.
C6_ListVariablesOnly ==
    (IsTemplateGet /\ last.in.listVariablesOnly) =>
        /\ ~Called("Process") /\ ~Called("ToUnstructured") /\ ~Called("fixTargetNamespace")
        /\ Called("GetVariables") =>
              /\ last.err = NoErr
              /\ last.trace[Len(last.trace)].op = "GetVariables"
        /\ last.err = NoErr =>
              /\ ~last.out.nil
              /\ last.out.variables = inspectVariables(last.raw.bytes)
              /\ last.out.objs = <<>>
              /\ last.out.targetNamespace = ""

C6_Witness ==
    /\ last.op = "TemplateGet" /\ last.in.listVariablesOnly /\ last.err = NoErr
    /\ last.out.variables = <<"NAMESPACE", "CLUSTER_NAME">>
    /\ last.out.objs = <<>>

\* C7: in every rendered artifact with objects, each namespaced object is in the
\* target namespace (for a Components.Get given none, the provider's default
\* namespace) and is otherwise as substitution left it, and each cluster-scoped
\* object is exactly as substitution left it.
C7_NamespaceNormalization ==
    (IsGet /\ last.err = NoErr /\ last.out.objs # <<>>) =>
        /\ Len(last.out.objs) = Len(SubstitutedObjs)
        /\ \A i \in 1..Len(last.out.objs) :
              IF SubstitutedObjs[i].kind \in NamespacedKinds
              THEN last.out.objs[i] =
                       [SubstitutedObjs[i] EXCEPT !.namespace = RenderTargetNamespace]
              ELSE last.out.objs[i] = SubstitutedObjs[i]

C7_Witness ==
    /\ last.op = "TemplateGet" /\ last.err = NoErr
    /\ \E i, j \in 1..Len(last.out.objs) :
          /\ last.out.objs[i].kind \in ClusterScopedKinds
          /\ last.out.objs[j].kind \in NamespacedKinds
          /\ SubstitutedObjs[j].namespace # last.in.targetNamespace
          /\ last.out.objs[j].namespace = last.in.targetNamespace

\* C8: a client built without an injected repository selects the GitHub backend
\* for scheme https and host github.com, the local filesystem backend for scheme
\* "file" or no scheme, and for every other scheme and host fails with an error
\* naming the scheme and returns no client.
C8_BackendSelection ==
    (IsNew /\ last.in.option = NoRepository /\ ~urlParse(last.in.provider.url).err) =>
        LET u == urlParse(last.in.provider.url)
        IN  IF u.Scheme = "https" /\ u.Host = "github.com"
            THEN /\ Called("newGitHubRepository") /\ ~Called("newLocalRepository")
                 /\ last.err = NoErr => client.repository.kind = "github"
            ELSE IF u.Scheme \in {"file", ""}
            THEN /\ Called("newLocalRepository") /\ ~Called("newGitHubRepository")
                 /\ last.err = NoErr => client.repository.kind = "local"
            ELSE /\ last.err = Err("UnsupportedScheme", u.Scheme)
                 /\ client = NoClient
                 /\ ~Called("newLocalRepository") /\ ~Called("newGitHubRepository")

C8_Witness ==
    /\ IsNew /\ last.in.provider.url = HttpURL
    /\ last.err = Err("UnsupportedScheme", "http")
    /\ client = NoClient

\* C9: a GitHub URL without the releases/<version>/<file> suffix makes the
\* construction of the client fail: no client with a GitHub backend ever exists
\* for such a URL.
C9_MalformedGitHubURLFailsAtConstruction ==
    LET malformed(url) ==
            LET u == urlParse(url)
            IN  /\ ~u.err /\ u.Scheme = "https" /\ u.Host = "github.com"
                /\ ~(Len(u.Path) >= 5 /\ u.Path[3] = "releases")
    IN  /\ (IsNew /\ last.in.option = NoRepository /\ malformed(last.in.provider.url)) =>
              (last.err # NoErr /\ client = NoClient)
        /\ (client # NoClient /\ client.repository.kind \notin {"fake"}) =>
              ~malformed(client.provider.url)

C9_Witness ==
    /\ IsNew /\ last.in.provider.url = GitHubShortURL
    /\ last.err.kind = "MalformedProviderURL"
    /\ Called("newGitHubRepository")
    /\ client = NoClient

\* C10: Components.Get without a version uses the repository's default version
\* for the override lookup, for GetFile and as the version of the components it
\* returns; with a version it uses that version and never asks for the default.
C10_ComponentsVersion ==
    (last.op = "ComponentsGet") =>
        LET v == IF last.in.version = "" THEN client.repository.defaultVersion
                 ELSE last.in.version
            overridePath ==
                "/home/user/.cluster-api/overrides/" \o ManifestLabel(last.in.provider)
                    \o "/" \o v \o "/" \o client.repository.componentsPath
        IN  /\ Called("DefaultVersion") <=> last.in.version = ""
            /\ Cardinality(Calls("os.Stat")) = 1
            /\ \A i \in Calls("os.Stat") : last.trace[i].arg = overridePath
            /\ \A i \in Calls("GetFile") : last.trace[i].version = v
            /\ last.err = NoErr => last.out.version = v

C10_Witness ==
    /\ last.op = "ComponentsGet" /\ last.in.version = "" /\ last.err = NoErr
    /\ Called("DefaultVersion") /\ Called("GetFile")
    /\ last.out.version = "v2.0.0"

\* C11: every successful Components.Get went through substitution, conversion to
\* objects and namespace normalization, in that order, and returns the objects of
\* the substituted artifact in the target namespace: never a variables-only
\* artifact.
C11_ComponentsAlwaysFullyRender ==
    (last.op = "ComponentsGet" /\ last.err = NoErr) =>
        /\ ~last.out.nil
        /\ \E i \in Calls("replaceVariables"), j \in Calls("ToUnstructured"),
              k \in Calls("fixTargetNamespace") : i < j /\ j < k
        /\ last.out.targetNamespace = RenderTargetNamespace
        /\ last.in.targetNamespace # "" => last.out.targetNamespace = last.in.targetNamespace
        /\ Len(last.out.objs) = Len(last.raw.bytes) \div 3
        /\ last.out.objs = fixTargetNamespace(SubstitutedObjs, RenderTargetNamespace)

C11_Witness ==
    /\ last.op = "ComponentsGet" /\ last.err = NoErr
    /\ last.raw = Bytes(RawMixed)
    /\ Len(last.out.objs) = 2
    /\ last.out.objs[2].namespace = "ns1" /\ last.out.objs[2].name = "test"
    /\ last.out.variables = <<"NAMESPACE", "CLUSTER_NAME">>

\* C16: the template file a Templates.Get asks for, both in the override lookup
\* and from the backend, is cluster-template.yaml without a flavor and
\* cluster-template-<flavor>.yaml with one, whatever the version, for the client
\* that fetches through Fetch as for the one that uses ArtifactName.
C16_TemplateArtifactName ==
    (IsTemplateGet /\ last.in.targetNamespace # "") =>
        LET expected == IF last.in.flavor = "" THEN "cluster-template.yaml"
                        ELSE "cluster-template-" \o last.in.flavor \o ".yaml"
            folder == "/home/user/.cluster-api/overrides/" \o ManifestLabel(last.in.provider)
                          \o (IF last.in.version = "" THEN "" ELSE "/" \o last.in.version)
        IN  /\ Cardinality(Calls("os.Stat")) = 1
            /\ \A i \in Calls("os.Stat") : last.trace[i].arg = folder \o "/" \o expected
            /\ \A i \in Calls("GetFile") : last.trace[i].arg = expected

C16_Witness ==
    /\ last.op = "FetchingTemplateGet" /\ last.in.flavor = "dev" /\ last.in.version = "v2.0.0"
    /\ last.err = Err("NotFound", "cluster-template-dev.yaml")
    /\ \E i \in Calls("GetFile") : last.trace[i].arg = "cluster-template-dev.yaml"

-----------------------------------------------------------------------------
(* Properties of the clusterctl client *)

\* the objects of the raw artifact of the last call when the variables without
\* a value are left as they are
SkippingObjs ==
    ToUnstructured(replaceVariables(last.raw.bytes, inspectVariables(last.raw.bytes),
                                    variables, TRUE).yaml.bytes)

\* C12: GetProviderComponents with SkipVariables succeeds when a variable of the
\* components has no value in the variable source: the placeholder is left as
\* it is in the objects and the variable is reported among the variables.
C12_SkipVariablesLeavesPlaceholders ==
    (/\ last.op = "GetProviderComponents" /\ last.in.options.SkipVariables
     /\ ~last.raw.nil
     /\ \E i \in 1..Len(last.raw.bytes) :
           last.raw.bytes[i].t = "var" /\ variables[last.raw.bytes[i].s] = NoValue
     /\ SkippingObjs.err = NoErr) =>
        /\ last.err = NoErr
        /\ last.out.variables = inspectVariables(last.raw.bytes)
        /\ last.out.objs =
               fixTargetNamespace(SkippingObjs.objs,
                                  IF last.in.options.TargetNamespace # ""
                                  THEN last.in.options.TargetNamespace
                                  ELSE inspectTargetNamespace(SkippingObjs.objs))

\* C19: the overrides folder is the folder "overrides" next to the configuration
\* file the client was given, and the one of the configuration folder of the
\* home directory when it was given none; the override file of a Get is looked
\* up below it, at <provider label>/<version>/<path>.
C19_OverridesPath ==
    /\ OverridesPath(cfgPath) = (IF cfgPath = "" THEN "/home/user/.cluster-api/overrides"
                                 ELSE "/tmp/some-dir/overrides")
    /\ last.op = "GetProviderComponents" =>
          LET built == newRepositoryClient(last.in.provider, last.in.option, repoFiles)
              version == IF last.in.version = "" THEN DefaultVersion(built.client.repository)
                         ELSE last.in.version
          IN  \A i \in Calls("os.Stat") :
                  last.trace[i].arg =
                      OverridesPath(cfgPath) \o "/" \o ManifestLabel(last.in.provider) \o "/"
                          \o version \o "/" \o ComponentsPath(built.client.repository)

-----------------------------------------------------------------------------
(* Properties of the default version *)

\* the provider's URL has latest where the version goes
PointsToLatest(url) ==
    LET u == urlParse(url)
    IN  ~u.err /\ Len(u.Path) >= 2 /\ u.Path[Len(u.Path) - 1] = "latest"

\* C17: the default version of a client's repository is a concrete version tag,
\* never the sentinel latest; no Get changes it; and it is the version a Get
\* that asks for the default version reads.
C17_DefaultVersionIsConcrete ==
    /\ [](client # NoClient =>
            /\ DefaultVersion(client.repository) # "latest"
            /\ ParseSemantic(DefaultVersion(client.repository)).ok)
    /\ [][(client # NoClient /\ last'.op # "New") =>
            DefaultVersion(client'.repository) = DefaultVersion(client.repository)]_vars
    /\ []((last.op = "ComponentsGet" /\ Called("DefaultVersion")) =>
            \A i \in Calls("GetFile") :
                last.trace[i].version = DefaultVersion(client.repository))

C17_Witness ==
    /\ last.op = "ComponentsGet" /\ last.in.version = "" /\ last.err = NoErr
    /\ client.provider.url = LocalLatestURL
    /\ Called("DefaultVersion")
    /\ DefaultVersion(client.repository) = "v2.1.0-rc.1"
    /\ last.out.version = "v2.1.0-rc.1"

\* C18: when the provider's URL points to latest, the default version is the
\* newest release the backend holds, by semantic-version precedence, and its
\* newest pre-release only when it holds no release.
C18_LatestIsNewestRelease ==
    (client # NoClient /\ PointsToLatest(client.provider.url)) =>
        LET held == {k[1] : k \in DOMAIN repoFiles}
            versions == {v \in held : ParseSemantic(v).ok}
            releases == {v \in versions : ParseSemantic(v).pre = 0}
            dv == DefaultVersion(client.repository)
        IN  /\ dv \in versions
            /\ releases # {} =>
                  dv \in releases /\ \A w \in releases : w = dv \/ SemVerLess(w, dv)
            /\ releases = {} => \A w \in versions : w = dv \/ SemVerLess(w, dv)

C18_Witness ==
    /\ IsNew /\ last.err = NoErr
    /\ client.provider.url = GitHubLatestURL
    /\ {k[1] : k \in DOMAIN repoFiles} = {"v1.0.0", "v2.0.0", "v2.1.0-rc.1"}
    /\ DefaultVersion(client.repository) = "v2.0.0"

-----------------------------------------------------------------------------
(* Properties of the processors *)

IsProcess == last.op \in {"Process", "ProcessYAML"}
IsGetVariables == last.op \in {"GetVariables", "TemplateGetVariables"}

\* the placeholders left in the bytes the last call returned
PlaceholdersLeft == {i \in 1..Len(last.out.yaml.bytes) : last.out.yaml.bytes[i].t = "var"}

\* C13: when a variable the call discovered has no value in the variable source
\* and missing variables are not skipped, Process and ProcessYAML return a
\* missing-variable error and no bytes at all, also when other variables of the
\* text have a value.
C13_MissingVariableStrictness ==
    (/\ IsProcess /\ ~last.in.skipVariables
     /\ \E i \in 1..Len(last.out.names) : variables[last.out.names[i]] = NoValue) =>
        /\ last.err.kind = "MissingVariable"
        /\ last.out.yaml = Nil

C13_Witness ==
    /\ last.op = "Process" /\ ~last.in.skipVariables
    /\ last.raw = Bytes(<<Var("A"), Lit("a"), Var("B")>>)
    /\ variables["A"] = Lit("x") /\ variables["B"] = NoValue
    /\ last.err = Err("MissingVariable", "B")
    /\ last.out.yaml = Nil

\* C14: GetVariables returns exactly the names of the placeholders of the text,
\* each name once, in the order of their first occurrence, and nothing but names.
C14_DiscoverVariables ==
    IsGetVariables =>
        LET raw == last.raw.bytes
            names == last.out.names
            first(n) == CHOOSE j \in 1..Len(raw) :
                            raw[j] = Var(n) /\ \A k \in 1..(j - 1) : raw[k] # Var(n)
        IN  /\ {names[i] : i \in 1..Len(names)}
                  = {raw[j].s : j \in {k \in 1..Len(raw) : raw[k].t = "var"}}
            /\ \A i, j \in 1..Len(names) :
                  i < j => names[i] # names[j] /\ first(names[i]) < first(names[j])
            /\ \A i \in 1..Len(names) : names[i] \in DOMAIN variables
            /\ last.err = NoErr

C14_Witness ==
    /\ last.op = "GetVariables"
    /\ last.raw = Bytes(<<Var("B"), Var("A"), Var("B")>>)
    /\ last.out.names = <<"B", "A">>

\* C15, as claimed: when Process, not skipping missing variables, resolves every
\* variable, Process applied to its output with the same source returns that
\* output unchanged.
C15_SubstitutionIdempotent ==
    (last.op = "Process" /\ ~last.in.skipVariables /\ last.err = NoErr) =>
        YamlProcess(newDefaultYamlProcessor(FALSE), last.out.yaml.bytes, variables)
            = [err |-> NoErr, yaml |-> last.out.yaml]

\* C15, amended: when Process, not skipping missing variables, resolves every
\* variable and its output holds no placeholder, Process applied to its output
\* with the same source returns that output unchanged.
C15_IdempotentWithoutPlaceholders ==
    (/\ last.op = "Process" /\ ~last.in.skipVariables /\ last.err = NoErr
     /\ PlaceholdersLeft = {}) =>
        YamlProcess(newDefaultYamlProcessor(FALSE), last.out.yaml.bytes, variables)
            = [err |-> NoErr, yaml |-> last.out.yaml]

C15_Witness ==
    /\ last.op = "Process" /\ ~last.in.skipVariables /\ last.err = NoErr
    /\ last.raw = Bytes(<<Var("A"), Lit("a"), Var("A")>>)
    /\ last.out.yaml = Bytes(<<Lit("x"), Lit("a"), Lit("x")>>)
    /\ PlaceholdersLeft = {}

-----------------------------------------------------------------------------
(* Properties of templateOptionsToVariables *)

IsOptionsStored == last.op = "templateOptionsToVariables" /\ last.err = NoErr

\* the decimal notation of the machine counts the options give
DecimalString(n) == CASE n = 1 -> "1" [] n = 2 -> "2" [] n = 10 -> "10" [] OTHER -> ""

\* C20: after a successful templateOptionsToVariables the variable source holds
\* ClusterName as CLUSTER_NAME, TargetNamespace as NAMESPACE, a non-empty
\* KubernetesVersion as KUBERNETES_VERSION and each given machine count as its
\* decimal string, whatever it held before; with an empty KubernetesVersion
\* KUBERNETES_VERSION is what it was before the call.
C20_OptionsStoredAsVariables ==
    IsOptionsStored =>
        LET options == last.in.options
        IN  /\ variables["CLUSTER_NAME"] = Lit(options.ClusterName)
            /\ variables["NAMESPACE"] = Lit(options.TargetNamespace)
            /\ options.KubernetesVersion # "" =>
                   variables["KUBERNETES_VERSION"] = Lit(options.KubernetesVersion)
            /\ options.KubernetesVersion = "" =>
                   variables["KUBERNETES_VERSION"] = last.in.before["KUBERNETES_VERSION"]
            /\ ~options.ControlPlaneMachineCount.nil =>
                   variables["CONTROL_PLANE_MACHINE_COUNT"]
                       = Lit(DecimalString(options.ControlPlaneMachineCount.v))
            /\ ~options.WorkerMachineCount.nil =>
                   variables["WORKER_MACHINE_COUNT"]
                       = Lit(DecimalString(options.WorkerMachineCount.v))

C20_Witness ==
    /\ IsOptionsStored
    /\ last.in.options = GetClusterTemplateOptions("foo", "bar", "", Int64Ptr(1), Int64Ptr(10))
    /\ last.in.before["CLUSTER_NAME"] = Lit("old")
    /\ last.in.before["KUBERNETES_VERSION"] = Lit("v3.4.5")
    /\ variables["CLUSTER_NAME"] = Lit("foo")
    /\ variables["KUBERNETES_VERSION"] = Lit("v3.4.5")
    /\ variables["WORKER_MACHINE_COUNT"] = Lit("10")

\* C21: when a machine-count option is unset, a CONTROL_PLANE_MACHINE_COUNT or
\* WORKER_MACHINE_COUNT variable the source already holds is left as it is, and
\* when the source holds none a successful call stores the default, 1 for the
\* control plane and 0 for the workers; a call with a negative machine count
\* fails.
C21_MachineCountLayering ==
    (last.op = "templateOptionsToVariables") =>
        LET options == last.in.options
            before == last.in.before
            layered(option, key, default) ==
                option.nil =>
                    IF before[key] # NoValue THEN variables[key] = before[key]
                    ELSE last.err = NoErr => variables[key] = Lit(default)
        IN  /\ layered(options.ControlPlaneMachineCount, "CONTROL_PLANE_MACHINE_COUNT", "1")
            /\ layered(options.WorkerMachineCount, "WORKER_MACHINE_COUNT", "0")
            /\ (\/ ~options.ControlPlaneMachineCount.nil /\ options.ControlPlaneMachineCount.v < 0
                \/ ~options.WorkerMachineCount.nil /\ options.WorkerMachineCount.v < 0) =>
                   last.err # NoErr

C21_Witness ==
    /\ IsOptionsStored
    /\ last.in.options = GetClusterTemplateOptions("foo", "bar", "v1.2.3", NilInt64, NilInt64)
    /\ last.in.before["CONTROL_PLANE_MACHINE_COUNT"] = Lit("3")
    /\ last.in.before["WORKER_MACHINE_COUNT"] = NoValue
    /\ variables["CONTROL_PLANE_MACHINE_COUNT"] = Lit("3")
    /\ variables["WORKER_MACHINE_COUNT"] = Lit("0")

-----------------------------------------------------------------------------
(* Properties of GetClusterTemplate *)

IsGetClusterTemplate == last.op = "GetClusterTemplate"

\* C22: GetClusterTemplate never hands an empty target namespace to the
\* rendering of the template, and when the TargetNamespace option is empty a
\* successful full render returns a template whose TargetNamespace() is the
\* current namespace of the cluster, with every namespaced object in it.
C22_CurrentNamespaceUsed ==
    IsGetClusterTemplate =>
        /\ \A i \in 1..Len(last.trace) :
              last.trace[i].op \in {"Templates.Get", "NewTemplate"} => last.trace[i].arg # ""
        /\ (/\ last.in.options.TargetNamespace = "" /\ last.err = NoErr
            /\ ~last.in.listVariablesOnly) =>
              /\ ~last.out.nil
              /\ cluster.currentNamespace # ""
              /\ last.out.targetNamespace = cluster.currentNamespace
              /\ \A i \in 1..Len(last.out.objs) :
                    last.out.objs[i].kind \in NamespacedKinds =>
                        last.out.objs[i].namespace = cluster.currentNamespace

\* C23: for the same raw template and the same options, GetClusterTemplate
\* returns the same error and a template with the same Variables(),
\* TargetNamespace() and Yaml() from the provider repository, from the URL and
\* from the ConfigMap.
C23_SourcesAgree ==
    IsGetClusterTemplate =>
        \A source \in TemplateSources :
            LET other == getClusterTemplate(last.in.options, source, last.in.listVariablesOnly,
                                            last.in.fetching, cluster, files, repoFiles,
                                            last.in.before).r
            IN  /\ other.err = last.err
                /\ TemplateValues(other.out) = TemplateValues(last.out)

-----------------------------------------------------------------------------
(* Properties of concurrent Get calls *)

\* the Get of a call, run alone
GetAlone(op, in, c, fs, rf, vs) ==
    CASE op = "ComponentsGet" ->
           ComponentsGet(c, fs, rf, vs, in.version, in.targetNamespace, "")
      [] op = "TemplateGet" ->
           TemplateGet(newTemplateClient(in.listVariablesOnly, c), fs, rf, vs, in.version,
                       in.flavor, in.targetNamespace)
      [] OTHER ->
           FetchingTemplateGet(newFetchingTemplateClient(in.listVariablesOnly, c), fs, rf, vs,
                               in.version, in.flavor, in.targetNamespace)

\* C24: however the steps of concurrent Get calls on one client interleave,
\* each call returns the template and the error its Get returns when run alone,
\* and the client keeps the provider, the backend and the default version it was
\* built with.
C24_ConcurrentGetsIndependent ==
    /\ \A p \in Procs :
          calls.pcs[p].pc = "done" =>
              LET alone == GetAlone(calls.pcs[p].op, calls.pcs[p].in, client, files, repoFiles,
                                    variables)
              IN  calls.pcs[p].out = alone.out /\ calls.pcs[p].err = alone.err
    /\ client = newRepositoryClient(SharedProvider, NoRepository, repoFiles).client

C24_Witness ==
    /\ calls.pcs[1].pc = "done" /\ calls.pcs[1].err = NoErr /\ calls.pcs[1].out.objs # <<>>
    /\ calls.pcs[2].pc = "convert"
    /\ calls.pcs[1].op = "TemplateGet" /\ calls.pcs[2].op = "ComponentsGet"
    /\ calls.locals[1].raw # calls.locals[2].raw

-----------------------------------------------------------------------------
(* Properties of the steps of a Get *)

\* what the state says about the last Get, apart from what the Get returned:
\* whether its fetch fails, the bytes it fetches, and whether their substitution
\* or their conversion to objects fails
FetchFails ==
    \/ OverrideUnreadable
    \/ OverrideAbsent /\ <<WantedVersion, WantedFile>> \notin DOMAIN repoFiles
FetchedRaw ==
    IF OverrideReadable THEN files[WantedOverridePath].content
    ELSE repoFiles[<<WantedVersion, WantedFile>>]
FullRender == last.op = "ComponentsGet" \/ ~last.in.listVariablesOnly
SubstitutionFails ==
    \E i \in 1..Len(FetchedRaw) :
        FetchedRaw[i].t = "var" /\ variables[FetchedRaw[i].s] = NoValue
ConversionFails == Len(FetchedRaw) % 3 # 0

\* C25: a Get returns an error exactly when it returns no artifact; it returns
\* an error whenever its override lookup, its GetFile, its substitution or its
\* conversion to objects fails; and a Get without error either went through
\* every step up to the namespaces or is a Templates.Get in list-variables-only
\* mode that stopped once the variables were discovered.
C25_NoPartialResults ==
    IsGet =>
        /\ last.err # NoErr <=> last.out.nil
        /\ (PassedArguments /\ FetchFails) => last.err # NoErr
        /\ (/\ PassedArguments /\ ~FetchFails /\ FullRender
            /\ (SubstitutionFails \/ ConversionFails)) => last.err # NoErr
        /\ last.err = NoErr =>
              IF FullRender
              THEN /\ last.trace[Len(last.trace)].op = "fixTargetNamespace"
                   /\ Len(last.out.objs) = Len(FetchedRaw) \div 3
              ELSE /\ last.trace[Len(last.trace)].op = "GetVariables"
                   /\ last.out.objs = <<>>

C25_Witness ==
    /\ last.op = "FetchingTemplateGet" /\ ~last.in.listVariablesOnly
    /\ ~FetchFails /\ SubstitutionFails
    /\ last.err.kind = "MissingVariable"
    /\ last.out.nil

\* the step of a Templates.Get that a call of the trace belongs to
StepOf(op) ==
    CASE op \in {"ArtifactName", "Fetch", "os.Stat", "ioutil.ReadFile", "GetFile"} -> 1
      [] op = "GetVariables" -> 2
      [] op = "Process" -> 3
      [] op = "ToUnstructured" -> 4
      [] op = "fixTargetNamespace" -> 5
LastStep == StepOf(last.trace[Len(last.trace)].op)

\* C26: the calls of a Templates.Get follow the order fetch, discover variables,
\* substitute, convert, normalize namespace: no call of an earlier step comes
\* after a call of a later one, each step after the fetch runs at most once and
\* only after the step before it, and the step that fails (as the files, the
\* repository content and the variable source decide) is the last one executed.
C26_StepsInOrder ==
    IsTemplateGet =>
        /\ \A i, j \in 1..Len(last.trace) :
              i < j => StepOf(last.trace[i].op) <= StepOf(last.trace[j].op)
        /\ \A k \in 2..5 :
              Cardinality({i \in 1..Len(last.trace) : StepOf(last.trace[i].op) = k}) <= 1
        /\ \A i \in 1..Len(last.trace) :
              StepOf(last.trace[i].op) > 1 =>
                  \E j \in 1..(i - 1) :
                      StepOf(last.trace[j].op) = StepOf(last.trace[i].op) - 1
        /\ ~PassedArguments => last.trace = <<>>
        /\ (PassedArguments /\ FetchFails) => LastStep = 1
        /\ (PassedArguments /\ ~FetchFails) =>
              LastStep = IF ~FullRender THEN 2
                         ELSE IF SubstitutionFails THEN 3
                         ELSE IF ConversionFails THEN 4
                         ELSE 5

C26_Witness ==
    /\ last.op = "TemplateGet" /\ PassedArguments /\ ~FetchFails /\ FullRender
    /\ ~SubstitutionFails /\ ConversionFails
    /\ last.err.kind = "ConversionError"
    /\ LastStep = 4 /\ ~Called("fixTargetNamespace")

\* the documents of the fetched artifact whose namespace field is a placeholder
TemplatedNamespaceDocs ==
    {d \in 1..(Len(FetchedRaw) \div 3) : FetchedRaw[3 * d - 1].t = "var"}

\* C27: in every Templates.Get that renders, substitution is called before the
\* namespaces are normalized, and each namespaced object whose namespace field
\* is a placeholder in the fetched artifact ends in the target namespace,
\* whatever the variable source holds for that placeholder.
C27_NormalizationAfterSubstitution ==
    (IsTemplateGet /\ last.err = NoErr /\ FullRender) =>
        /\ Called("Process") /\ Called("fixTargetNamespace")
        /\ \A i \in Calls("Process"), j \in Calls("fixTargetNamespace") : i < j
        /\ \A d \in TemplatedNamespaceDocs :
              last.out.objs[d].kind \in NamespacedKinds =>
                  last.out.objs[d].namespace = last.in.targetNamespace

C27_Witness ==
    /\ IsTemplateGet /\ last.err = NoErr /\ FullRender
    /\ \E d \in TemplatedNamespaceDocs :
          /\ last.out.objs[d].kind \in NamespacedKinds
          /\ variables[FetchedRaw[3 * d - 1].s] \notin {NoValue, Lit(last.in.targetNamespace)}
          /\ SubstitutedObjs[d].namespace = variables[FetchedRaw[3 * d - 1].s].s
          /\ last.out.objs[d].namespace = last.in.targetNamespace

\* the override file of a provider label, a version and a relative file path
OverrideFileOf(label, version, path) ==
    "/home/user/.cluster-api/overrides/" \o label
        \o (IF version = "" THEN "" ELSE "/" \o version) \o "/" \o path

\* C28: a Get that passed its argument check looks up exactly one override
\* file, and each GetFile call of the Get comes after that lookup and is for the
\* version and the relative path whose override file, under the label of the
\* client's provider, is the one looked up; this holds for Components.Get and
\* for both Templates.Get.
C28_DropInOverride ==
    (IsGet /\ PassedArguments) =>
        /\ Cardinality(Calls("os.Stat")) = 1
        /\ \A i \in Calls("GetFile") :
              \E j \in Calls("os.Stat") :
                  /\ j < i
                  /\ last.trace[j].arg =
                         OverrideFileOf(ManifestLabel(last.in.provider),
                                        last.trace[i].version, last.trace[i].arg)
        /\ \A k \in Calls("ioutil.ReadFile") :
              \E j \in Calls("os.Stat") : j < k /\ last.trace[j].arg = last.trace[k].arg

C28_Witness ==
    /\ last.op = "ComponentsGet" /\ last.in.version = "" /\ last.err = NoErr
    /\ DOMAIN files # {}
    /\ \E i \in Calls("GetFile"), j \in Calls("os.Stat") :
          /\ last.trace[i].version = client.repository.defaultVersion
          /\ last.trace[i].version # ""
          /\ last.trace[j].arg =
                 OverrideFileOf(ManifestLabel(last.in.provider),
                                last.trace[i].version, last.trace[i].arg)

\* C29: a step that is a Components.Get or a Templates.Get, successful or
\* failed, leaves the variable source with exactly the names and values it
\* held, leaves the override files and the repository files as they were, and
\* the raw artifact it reports is still the fetched bytes, placeholders
\* included: what substitution produced is another byte sequence.
C29_GetOnlyReads ==
    [][IsGet' =>
          /\ variables' = variables
          /\ files' = files
          /\ repoFiles' = repoFiles
          /\ ~last'.raw.nil => last'.raw = Bytes(FetchedRaw')]_vars

C29_Witness ==
    /\ IsGet /\ last.err = NoErr /\ FullRender
    /\ variables \in VariableSources
    /\ last.raw = Bytes(FetchedRaw)
    /\ \E i \in 1..Len(last.raw.bytes) :
          /\ last.raw.bytes[i].t = "var"
          /\ last.out.objs[(i + 2) \div 3].name = variables[last.raw.bytes[i].s].s

\* the fields of the returned objects that still hold a placeholder
UnsubstitutedFields ==
    {i \in 1..Len(last.out.objs) :
        \E n \in DOMAIN variables :
            TokenText(Var(n)) \in {last.out.objs[i].kind, last.out.objs[i].namespace,
                                   last.out.objs[i].name}}

\* C30: the processor of a template client skips missing variables exactly when
\* the client only lists variables; a Templates.Get substitutes only when it
\* does not only list variables; so a Templates.Get on a template that uses a
\* variable without a value in the variable source returns a missing-variable
\* error and no template, and no rendered template holds a placeholder.
C30_StrictSubstitution ==
    IsTemplateGet =>
        /\ newTemplateClient(last.in.listVariablesOnly, client).processor.skipVariables
               = last.in.listVariablesOnly
        /\ newFetchingTemplateClient(last.in.listVariablesOnly, client).processor.skipVariables
               = last.in.listVariablesOnly
        /\ Called("Process") => ~last.in.listVariablesOnly
        /\ (PassedArguments /\ ~FetchFails /\ FullRender /\ SubstitutionFails) =>
              /\ last.err.kind = "MissingVariable"
              /\ last.out.nil
        /\ (last.err = NoErr /\ FullRender) => UnsubstitutedFields = {}

C30_Witness ==
    /\ last.op = "TemplateGet" /\ ~last.in.listVariablesOnly
    /\ PassedArguments /\ ~FetchFails
    /\ variables["CLUSTER_NAME"] = NoValue /\ (\E i \in 1..Len(FetchedRaw) : FetchedRaw[i] = Var("CLUSTER_NAME"))
    /\ Called("Process") /\ ~Called("ToUnstructured")
    /\ last.err = Err("MissingVariable", "CLUSTER_NAME")
    /\ last.out.nil

====
